---- MODULE Spec2Model ----
(***************************************************************************)
(* A model of hyprwall's core: the optimization cache, its keys and the    *)
(* encoder selector (core/optimize.py), the per-monitor process supervisor *)
(* (core/runner.py), the power policy and switch gate (core/policy.py),    *)
(* the session with the auto daemon (core/session.py, cli/main.py), the   *)
(* session document's round trip through its file, the `auto --once` run,  *)
(* the controller's commands as sequences of supervisor operations, the    *)
(* termination of a process group statement by statement, and the commands *)
(* that apply a wallpaper (optimize, stop, start, persist) step by step.   *)
(*                                                                         *)
(* Each component has its own specification over its own variables; the    *)
(* variables of the other components stay at their initial values.         *)
(***************************************************************************)
EXTENDS Integers, Sequences, FiniteSets, TLC

VARIABLES
    \* ---- power policy (core/policy.py) ----
    pol_last,      \* the `last` argument of the next choose_profile call
    pol_st,        \* the PowerStatus of the latest call
    pol_first,     \* the `last` argument of the very first call
    pol_n,         \* number of choose_profile calls made
    pol_changes,   \* number of times a result differed from the previous result
    pol_band,      \* all statuses so far: on battery, strict_enter < percent <= eco_exit
    pol_ecoSeen,   \* "eco" has been returned
    \* ---- encoder selector (core/optimize.py, pick_encoder) ----
    pe_in,         \* [requested, codec, probe]
    pe_out,        \* result of pick_encoder, or PePending
    \* ---- optimization cache (core/optimize.py, ensure_optimized) ----
    wp,            \* the wallpaper being optimized: [source, codec]
    fs,            \* the cache directory: path -> inode
    inodes,        \* inode -> content, a sequence of chunks (each tagged by its writer)
    srcFp,         \* source -> its current (size, mtime)
    call,          \* caller -> the locals of its ensure_optimized call in progress
    nCalls,        \* number of ensure_optimized calls begun
    cur,           \* the call that ended last, and how it relates to the one before
    okRuns,        \* transcodes that wrote their whole output and exited 0: {[id, key, enc]}
    published,     \* ids of the calls whose temp file was renamed onto the artifact path
    \* ---- process supervisor (core/runner.py) ----
    procs,         \* the process table: pid -> process
    stateFile,     \* the persisted state document
    envSteps,      \* steps taken so far by anything other than the controller
    rn_last,       \* the supervisor operation that ended last, and its result
    \* ---- switch gate (core/policy.py, should_switch) ----
    sw_in,         \* the arguments of should_switch and the clock reading it takes
    sw_out,        \* [done, ret]: whether it has returned, and its result
    \* ---- session and auto daemon (core/session.py, cli/main.py) ----
    clock,         \* the wall clock, in seconds
    sessFile,      \* the persisted session
    dm,            \* the auto daemon: its position, its copy of the session, `last`
    applied,       \* the profile the players were last started with, and by whom
    sn,            \* bookkeeping for the properties
    \* ---- cache keys (core/optimize.py, cache_key) ----
    ck_a,          \* one request
    ck_b,          \* another request
    ck_out,        \* [done, keyA, keyB, pathA, pathB]
    \* ---- session document (core/session.py) ----
    ss_s,          \* the Session handed to save_session
    ss_file,       \* the session document on disk
    ss_out,        \* [saved, loaded, sess]: what has run, and what load returned
    \* ---- terminating a process group (core/runner.py, _terminate_group) ----
    tg,            \* the call: its position, the clock, the group, the signals sent
    \* ---- a command applying a wallpaper (cli/main.py, core/api.py) ----
    ap             \* the command in progress: its position, what it did so far

polVars == <<pol_last, pol_st, pol_first, pol_n, pol_changes, pol_band, pol_ecoSeen>>
peVars  == <<pe_in, pe_out>>
optVars == <<wp, fs, inodes, srcFp, call, nCalls, cur, okRuns, published>>
rnVars  == <<procs, stateFile, envSteps, rn_last>>
swVars  == <<sw_in, sw_out>>
dmVars  == <<clock, sessFile, dm, applied, sn>>
ckVars  == <<ck_a, ck_b, ck_out>>
ssVars  == <<ss_s, ss_file, ss_out>>
tgVars  == <<tg>>
apVars  == <<ap>>

vars == <<polVars, peVars, optVars, rnVars, swVars, dmVars, ckVars, ssVars, tgVars, apVars>>

None == "none"

(***************************************************************************)
(*                          POWER POLICY                                   *)
(***************************************************************************)

\* Hysteresis defaults
eco_enter    == 40
eco_exit     == 45
strict_enter == 20
strict_exit  == 25

Hysteresis == [eco_enter |-> eco_enter, eco_exit |-> eco_exit,
               strict_enter |-> strict_enter, strict_exit |-> strict_exit]

\* PowerStatus.percent is an int or None; None is written PctNone
PctNone == -1
Percents == 0..100

\* PowerStatus.on_ac is True, False or None
OnAcValues == {"true", "false", None}

PowerStatuses == [on_ac : OnAcValues, percent : Percents \cup {PctNone}]

\* values the session's last_profile can hold, and None
LastValues == {None, "eco_strict", "eco", "balanced", "quality", "off"}

\* maximum number of choose_profile calls in one behaviour
MaxPolicyCalls == 4

\* EcoBranch with the exit threshold confused with the enter threshold
EcoBranch_NoDeadBand(p, last, h) ==
    IF p <= h.eco_enter THEN "eco" ELSE "balanced"

\* EcoBranch with its two sides exchanged
EcoBranch_Inverted(p, last, h) ==
    IF p <= h.eco_enter THEN "balanced" ELSE "eco"

\* the ECO hysteresis branch of choose_profile
EcoBranch(p, last, h) ==
    IF last = "eco"
    THEN IF p > h.eco_exit THEN "balanced" ELSE "eco"
    ELSE IF p <= h.eco_enter THEN "eco" ELSE "balanced"

\* choose_profile that, leaving "eco_strict", goes to "eco" up to and
\* including eco_enter
choose_profile_EcoAtEnter(st, last, h) ==
    IF st.on_ac = "true" THEN "balanced"
    ELSE IF st.percent = PctNone
         THEN (IF last = None THEN "balanced" ELSE last)
    ELSE LET p == st.percent IN
         IF last = "eco_strict"
         THEN IF p > h.strict_exit
              THEN (IF p <= h.eco_enter THEN "eco" ELSE "balanced")
              ELSE "eco_strict"
         ELSE IF p <= h.strict_enter
              THEN "eco_strict"
              ELSE EcoBranch(p, last, h)

choose_profile(st, last, h) ==
    IF st.on_ac = "true" THEN "balanced"
    ELSE IF st.percent = PctNone
         THEN (IF last = None THEN "balanced" ELSE last)
    ELSE LET p == st.percent IN
         IF last = "eco_strict"
         THEN IF p > h.strict_exit
              THEN (IF p < h.eco_enter THEN "eco" ELSE "balanced")
              ELSE "eco_strict"
         ELSE IF p <= h.strict_enter
              THEN "eco_strict"
              ELSE EcoBranch(p, last, h)

InBand(st) ==
    /\ st.on_ac = "false"
    /\ st.percent # PctNone
    /\ st.percent > strict_enter
    /\ st.percent <= eco_exit

PolInit ==
    /\ pol_first \in LastValues
    /\ pol_last = pol_first
    /\ pol_st = [on_ac |-> None, percent |-> PctNone]
    /\ pol_n = 0
    /\ pol_changes = 0
    /\ pol_band = TRUE
    /\ pol_ecoSeen = FALSE

\* one evaluation of the policy with the previous result fed back as `last`
PolicyCall(st) ==
    /\ pol_n < MaxPolicyCalls
    /\ LET res == choose_profile(st, pol_last, Hysteresis) IN
        /\ pol_last' = res
        /\ pol_changes' = IF pol_n > 0 /\ res # pol_last
                          THEN pol_changes + 1 ELSE pol_changes
        /\ pol_ecoSeen' = (pol_ecoSeen \/ res = "eco")
    /\ pol_st' = st
    /\ pol_n' = pol_n + 1
    /\ pol_band' = (pol_band /\ InBand(st))
    /\ UNCHANGED pol_first
    /\ UNCHANGED <<peVars, optVars, rnVars, swVars, dmVars, ckVars, ssVars, tgVars, apVars>>

PolStep == \E st \in PowerStatuses : PolicyCall(st)

(***************************************************************************)
(*                          ENCODER SELECTOR                               *)
(***************************************************************************)

Codecs   == {"h264", "vp9", "av1"}
Encoders == {"auto", "cpu", "vaapi", "nvenc"}

CODEC_ENCODERS ==
    [c \in Codecs |-> CASE c = "h264" -> {"cpu", "nvenc"}
                        [] c = "vp9"  -> {"cpu"}
                        [] c = "av1"  -> {"vaapi"}]

\* What running `ffmpeg -hide_banner -encoders` and the device checks can give:
\* the command succeeds (kind "ok") and its text lists h264_nvenc / av1_vaapi
\* or not, libcuda / renderD128 exist or not; or run() raises.
ProbeErrors == {"CalledProcessError", "OSError", "UnicodeDecodeError"}
ProbeOutcomes ==
    [kind : {"ok"}, nvenc_txt : BOOLEAN, cuda : BOOLEAN,
     av1_txt : BOOLEAN, dri : BOOLEAN]
    \cup
    [kind : ProbeErrors, nvenc_txt : {FALSE}, cuda : {FALSE},
     av1_txt : {FALSE}, dri : {FALSE}]

_has_nvenc(probe) == probe.nvenc_txt /\ probe.cuda

_has_av1_vaapi(probe) == probe.av1_txt /\ probe.dri

PeResult(ret, err, probed) == [ret |-> ret, err |-> err, probed |-> probed]

\* ExplicitPick that substitutes the software encoder instead of failing
ExplicitPick_Substitute(requested, codec) ==
    IF requested \notin CODEC_ENCODERS[codec]
    THEN PeResult("cpu", None, FALSE)
    ELSE PeResult(requested, None, FALSE)

\* explicit request: validate against the allowed encoders
ExplicitPick(requested, codec) ==
    IF requested \notin CODEC_ENCODERS[codec]
    THEN PeResult(None, "Incompatible", FALSE)
    ELSE PeResult(requested, None, FALSE)

\* AutoSelect that falls back to software for every codec
AutoSelect_SoftwareFallback(codec, probe) ==
    CASE codec = "h264" ->
            IF _has_nvenc(probe)
            THEN PeResult("nvenc", None, TRUE)
            ELSE PeResult("cpu", None, TRUE)
      [] codec = "av1" ->
            IF _has_av1_vaapi(probe)
            THEN PeResult("vaapi", None, TRUE)
            ELSE PeResult("cpu", None, TRUE)
      [] OTHER -> PeResult("cpu", None, TRUE)

\* auto selection per codec, once the encoder list has been read
AutoSelect(codec, probe) ==
    CASE codec = "h264" ->
            IF "nvenc" \in CODEC_ENCODERS[codec] /\ _has_nvenc(probe)
            THEN PeResult("nvenc", None, TRUE)
            ELSE PeResult("cpu", None, TRUE)
      [] codec = "av1" ->
            IF "vaapi" \in CODEC_ENCODERS[codec] /\ _has_av1_vaapi(probe)
            THEN PeResult("vaapi", None, TRUE)
            ELSE PeResult(None, "Av1NeedsVaapi", TRUE)
      [] OTHER -> PeResult("cpu", None, TRUE)

\* try: enc_txt = _ffmpeg_encoders_text()  except CalledProcessError: return "cpu"
\* any other exception raised by run() leaves pick_encoder as it is
AutoPick(codec, probe) ==
    IF probe.kind = "CalledProcessError" THEN PeResult("cpu", None, TRUE)
    ELSE IF probe.kind # "ok" THEN PeResult(None, probe.kind, TRUE)
    ELSE AutoSelect(codec, probe)

pick_encoder(requested, codec, probe) ==
    IF requested \in {"cpu", "vaapi", "nvenc"}
    THEN ExplicitPick(requested, codec)
    ELSE IF requested # "auto" THEN PeResult("cpu", None, FALSE)
    ELSE AutoPick(codec, probe)

PePending == PeResult(None, "pending", FALSE)

PeInputs == [requested : Encoders, codec : Codecs, probe : ProbeOutcomes]

PeInit ==
    /\ pe_in \in PeInputs
    /\ pe_out = PePending

PickEncoder ==
    /\ pe_out = PePending
    /\ pe_out' = pick_encoder(pe_in.requested, pe_in.codec, pe_in.probe)
    /\ UNCHANGED pe_in
    /\ UNCHANGED <<polVars, optVars, rnVars, swVars, dmVars, ckVars, ssVars, tgVars, apVars>>

PeIdle == [requested |-> "auto", codec |-> "h264",
           probe |-> [kind |-> "ok", nvenc_txt |-> FALSE, cuda |-> FALSE,
                      av1_txt |-> FALSE, dri |-> FALSE]]

PeFrozen == pe_in = PeIdle /\ pe_out = PePending

(***************************************************************************)
(*                          OPTIMIZATION CACHE                             *)
(***************************************************************************)

IMAGE_EXTS == {".png", ".jpg", ".jpeg", ".webp", ".bmp", ".gif"}

\* the source files callers ask for, and Path.suffix.lower() of each
Sources == {"clip.mp4", "pic.png"}

Suffix(source) == IF source = "clip.mp4" THEN ".mp4" ELSE ".png"

IsImageSource(source) == Suffix(source) \in IMAGE_EXTS

BALANCED == [name |-> "balanced", fps |-> 30, quality |-> 24, preset |-> "veryfast"]

Profiles == {BALANCED}
Widths   == {1920}
Heights  == {1080}
Modes    == {"auto"}

\* (st_size, int(st_mtime)) a source file can have
Fingerprints == {[size |-> 1000, mtime |-> 10], [size |-> 2000, mtime |-> 20]}

\* callers that can be inside ensure_optimized at the same time
NProcs == 2
Procs == 1..NProcs

\* maximum number of ensure_optimized calls in one behaviour
MaxCalls == 2

\* number of chunks the transcoder writes to its output file
NChunks == 2

_source_fingerprint(source) ==
    [path |-> source, size |-> srcFp[source].size, mtime |-> srcFp[source].mtime]

\* a payload that leaves the display mode out
KeyPayload_NoMode(fingerprint, width, height, profile, mode, codec, encoder) ==
    [src |-> fingerprint, w |-> width, h |-> height,
     fps |-> profile.fps, codec |-> codec, quality |-> profile.quality,
     preset |-> profile.preset, enc |-> encoder]

\* The payload that is serialized with sorted keys and hashed; the digest is
\* taken to be injective on payloads.
KeyPayload(fingerprint, width, height, profile, mode, codec, encoder) ==
    [src |-> fingerprint, w |-> width, h |-> height,
     fps |-> profile.fps, codec |-> codec, quality |-> profile.quality,
     preset |-> profile.preset, enc |-> encoder, mode |-> mode]

cache_key(source, width, height, profile, mode, codec, encoder) ==
    KeyPayload(_source_fingerprint(source), width, height, profile, mode, codec, encoder)

optimized_path(key, codec) ==
    [dir |-> key, stem |-> "wallpaper",
     ext |-> CASE codec = "h264" -> ".mp4"
               [] codec = "vp9"  -> ".webm"
               [] OTHER          -> ".mkv"]

\* dst.with_name(dst.stem + ".tmp" + dst.suffix), with the temp file written
\* straight onto the artifact path
TmpPath_InPlace(dst) == dst

\* dst.with_name(dst.stem + ".tmp" + dst.suffix)
TmpPath(dst) == [dst EXCEPT !.stem = "wallpaper.tmp"]

Exists(path) == path \in DOMAIN fs

Size(path) == Len(inodes[fs[path]])

\* the cache-hit test that looks only at existence
IsCacheHit_ExistsOnly(dst) == Exists(dst)

\* the cache-hit test that never hits
IsCacheHit_Never(dst) == FALSE

\* dst.exists() and dst.stat().st_size > 0
IsCacheHit(dst) == Exists(dst) /\ Size(dst) > 0

\* what a reader finds at a path: missing, empty, or its content
ContentAt(path) == IF Exists(path) THEN inodes[fs[path]] ELSE <<>>

InodeAt(path) == IF Exists(path) THEN fs[path] ELSE -1

PathState(path) ==
    IF ~Exists(path) THEN "missing"
    ELSE IF Size(path) = 0 THEN "empty" ELSE "nonempty"

\* the whole output of the transcode run by call `id`
FullOutput(id) == [i \in 1..NChunks |-> id]

\* write(2) of one chunk at 0-based offset `off` by writer `id`;
\* a write past the end leaves a hole (0) before it
WriteAt(content, off, id) ==
    [i \in 1..(IF Len(content) > off + 1 THEN Len(content) ELSE off + 1) |->
        IF i = off + 1 THEN id
        ELSE IF i <= Len(content) THEN content[i] ELSE 0]

OptOnly == UNCHANGED <<polVars, peVars, rnVars, swVars, dmVars, ckVars, ssVars, tgVars, apVars>>

NoKey  == [src |-> None]
NoPath == [dir |-> NoKey]

Idle == [pc |-> "idle", id |-> 0, req |-> None, codec |-> None, chosen |-> None,
         image |-> FALSE, key |-> NoKey, dst |-> NoPath, tmp |-> NoPath,
         fd |-> -1, off |-> 0, pre |-> "missing", probed |-> FALSE]

NoCall == [id |-> 0, req |-> None, chosen |-> None, used |-> None,
           key |-> NoKey, path |-> NoPath, hit |-> FALSE, err |-> "nocall",
           spawned |-> 0, probed |-> FALSE,
           pre |-> "missing", art |-> <<>>, artIno |-> -1,
           second |-> FALSE, first |-> [none |-> TRUE],
           afterFail |-> FALSE, failed |-> [none |-> TRUE]]

\* the OptimizeResult a call returns (err = None), or what it raises
CallEnd(c, hit, used, err, spawned, files, nodes) ==
    [id |-> c.id, req |-> c.req, chosen |-> c.chosen, used |-> used,
     key |-> c.key, path |-> c.dst, hit |-> hit, err |-> err,
     spawned |-> spawned, probed |-> c.probed, pre |-> c.pre,
     art |-> IF c.dst \in DOMAIN files THEN nodes[files[c.dst]] ELSE <<>>,
     artIno |-> IF c.dst \in DOMAIN files THEN files[c.dst] ELSE -1,
     second |-> FALSE, first |-> [none |-> TRUE],
     afterFail |-> FALSE, failed |-> [none |-> TRUE]]

\* `result` is the second of two successive calls that both returned, with
\* the same arguments and the same source fingerprint, the first of which
\* began with no artifact in the cache
IsSecond(result) ==
    /\ cur.err = None /\ result.err = None
    /\ cur.pre # "nonempty"
    /\ cur.req = result.req
    /\ cur.key.src = result.key.src

\* `result` is the call that follows, with the same arguments and the same
\* source fingerprint, a call whose transcode failed
IsRetry(result) ==
    /\ cur.err = "RuntimeError" /\ cur.spawned = 1
    /\ result.key # NoKey
    /\ cur.req = result.req
    /\ cur.key.src = result.key.src

\* the call of caller p ends: `cur` becomes its result
Finish(p, result) ==
    /\ call' = [call EXCEPT ![p] = Idle]
    /\ cur' = IF IsSecond(result)
              THEN [result EXCEPT !.second = TRUE,
                      !.first = [hit |-> cur.hit, spawned |-> cur.spawned,
                                 chosen |-> cur.chosen,
                                 path |-> cur.path, art |-> cur.art,
                                 artIno |-> cur.artIno]]
              ELSE IF IsRetry(result)
              THEN [result EXCEPT !.afterFail = TRUE,
                      !.failed = [chosen |-> cur.chosen, path |-> cur.path]]
              ELSE result

\* a zero-byte file at an artifact path, as interleaved calls can leave one
PlaceholderKey ==
    [src |-> [path |-> "clip.mp4", size |-> 1000, mtime |-> 10], w |-> 1920,
     h |-> 1080, fps |-> 30, codec |-> "h264", quality |-> 24,
     preset |-> "veryfast", enc |-> "cpu", mode |-> "auto"]

\* the id of a call made by an earlier run of the program
EarlierCall == MaxCalls + 1

\* the key an earlier run used for a video with the software encoder
EarlierKey ==
    [src |-> [path |-> "clip.mp4", size |-> 1000, mtime |-> 10], w |-> 1920,
     h |-> 1080, fps |-> 30, codec |-> "h264", quality |-> 24,
     preset |-> "veryfast", enc |-> "cpu", mode |-> "auto"]

\* the cache is empty, or holds a zero-byte file at an artifact path, or
\* holds the artifact an earlier run encoded and renamed into place
OptInit ==
    /\ wp \in [source : Sources, codec : Codecs]
    /\ \/ fs = <<>> /\ inodes = <<>> /\ okRuns = {} /\ published = {}
       \/ /\ fs = (optimized_path(PlaceholderKey, "h264") :> 0)
          /\ inodes = (0 :> <<>>)
          /\ okRuns = {} /\ published = {}
       \/ /\ wp = [source |-> "clip.mp4", codec |-> "h264"]
          /\ fs = (optimized_path(EarlierKey, "h264") :> EarlierCall)
          /\ inodes = (EarlierCall :> FullOutput(EarlierCall))
          /\ okRuns = {[id |-> EarlierCall, key |-> EarlierKey, enc |-> "cpu"]}
          /\ published = {EarlierCall}
    /\ srcFp = [s \in Sources |-> [size |-> 1000, mtime |-> 10]]
    /\ call = [p \in Procs |-> Idle]
    /\ nCalls = 0
    /\ cur = NoCall

\* ensure_optimized up to the cache-hit test
Begin(p, source, width, height, profile, mode, codec, encoder, probe, ffmpegOnPath) ==
    /\ call[p].pc = "idle"
    /\ nCalls' = nCalls + 1
    /\ UNCHANGED <<wp, fs, inodes, srcFp, okRuns, published>>
    /\ OptOnly
    /\ LET id == nCalls + 1
           pe == pick_encoder(encoder, codec, probe)
           c0 == [Idle EXCEPT !.id = id, !.req = encoder, !.codec = codec,
                              !.probed = ffmpegOnPath /\ pe.probed]
       IN
       IF ~ffmpegOnPath
       THEN Finish(p, CallEnd(c0, FALSE, None, "RuntimeError", 0, fs, inodes))
       ELSE IF pe.err # None
       THEN Finish(p, CallEnd(c0, FALSE, None,
                IF pe.err \in ProbeErrors THEN pe.err ELSE "RuntimeError",
                0, fs, inodes))
       ELSE LET key == cache_key(source, width, height, profile, mode, codec, pe.ret)
                dst == optimized_path(key, codec)
                c1  == [c0 EXCEPT !.chosen = pe.ret, !.key = key, !.dst = dst,
                                  !.tmp = TmpPath(dst),
                                  !.image = IsImageSource(source),
                                  !.pre = PathState(dst)]
            IN
            IF IsCacheHit(dst)
            THEN Finish(p, CallEnd(c1, TRUE, pe.ret, None, 0, fs, inodes))
            ELSE /\ call' = [call EXCEPT ![p] = [c1 EXCEPT !.pc = "run"]]
                 /\ UNCHANGED cur

\* the transcoder starts and opens its output with O_CREAT | O_TRUNC
FfmpegOpen(p) ==
    /\ call[p].pc = "run"
    /\ LET c == call[p]
           ino == IF Exists(c.tmp) THEN fs[c.tmp] ELSE c.id
       IN
       /\ fs' = IF Exists(c.tmp) THEN fs ELSE (c.tmp :> ino) @@ fs
       /\ inodes' = (ino :> <<>>) @@ inodes
       /\ call' = [call EXCEPT ![p] = [c EXCEPT !.pc = "encoding", !.fd = ino, !.off = 0]]
    /\ UNCHANGED <<wp, srcFp, nCalls, cur, okRuns, published>>
    /\ OptOnly

\* the transcoder writes its next chunk through its file descriptor
FfmpegWrite(p) ==
    /\ call[p].pc = "encoding"
    /\ call[p].off < NChunks
    /\ LET c == call[p] IN
       /\ inodes' = [inodes EXCEPT ![c.fd] = WriteAt(inodes[c.fd], c.off, c.id)]
       /\ call' = [call EXCEPT ![p] = [c EXCEPT !.off = c.off + 1]]
    /\ UNCHANGED <<wp, fs, srcFp, nCalls, cur, okRuns, published>>
    /\ OptOnly

\* The encoder of the ffmpeg command a miss runs.  A still image is always
\* encoded in software (libx264, libaom-av1, libvpx-vp9); a video is encoded
\* with h264_nvenc or libx264 for h264, av1_vaapi for av1, libvpx-vp9 for vp9.
EncoderRun(image, codec, chosen) ==
    IF image THEN "cpu"
    ELSE CASE codec = "h264" -> (IF chosen = "nvenc" THEN "nvenc" ELSE "cpu")
           [] codec = "av1"  -> "vaapi"
           [] OTHER          -> "cpu"

\* the transcoder has written everything and exits 0: _run returns
FfmpegExitOk(p) ==
    /\ call[p].pc = "encoding"
    /\ call[p].off = NChunks
    /\ call' = [call EXCEPT ![p] = [call[p] EXCEPT !.pc = "replace"]]
    /\ okRuns' = okRuns \cup {[id |-> call[p].id, key |-> call[p].key,
                              enc |-> EncoderRun(call[p].image, call[p].codec,
                                                 call[p].chosen)]}
    /\ UNCHANGED <<wp, fs, inodes, srcFp, nCalls, cur, published>>
    /\ OptOnly

Unlink(files, path) == [q \in (DOMAIN files) \ {path} |-> files[q]]

\* a failure handler that moves whatever the transcoder wrote onto the
\* artifact path
FfmpegFail_KeepsOutput(p, why) ==
    /\ call[p].pc \in {"run", "encoding"}
    /\ LET c == call[p]
           files == IF Exists(c.tmp)
                    THEN (c.dst :> fs[c.tmp]) @@ Unlink(Unlink(fs, c.tmp), c.dst)
                    ELSE fs
       IN
       /\ fs' = files
       /\ Finish(p, CallEnd(c, FALSE, None, "RuntimeError", 1, files, inodes))
    /\ UNCHANGED <<wp, inodes, srcFp, nCalls, okRuns, published>>
    /\ OptOnly

\* the transcoder exits non-zero, or the user interrupts it: _run raises
\* RuntimeError. The video branch removes the temp file; the image branch
\* has no handler.
FfmpegFail(p, why) ==
    /\ call[p].pc \in {"run", "encoding"}
    /\ LET c == call[p]
           files == IF c.image THEN fs ELSE Unlink(fs, c.tmp)
       IN
       /\ fs' = files
       /\ Finish(p, CallEnd(c, FALSE, None, "RuntimeError", 1, files, inodes))
    /\ UNCHANGED <<wp, inodes, srcFp, nCalls, okRuns, published>>
    /\ OptOnly

\* tmp.replace(dst), then the OptimizeResult; a temp file that is gone
\* raises FileNotFoundError, which `except RuntimeError` does not catch
Replace(p) ==
    /\ call[p].pc = "replace"
    /\ LET c == call[p] IN
       IF Exists(c.tmp)
       THEN LET files == (c.dst :> fs[c.tmp]) @@ Unlink(Unlink(fs, c.tmp), c.dst)
            IN
            /\ fs' = files
            /\ published' = published \cup {c.id}
            /\ Finish(p, CallEnd(c, FALSE, IF c.image THEN "cpu" ELSE c.chosen,
                                 None, 1, files, inodes))
       ELSE /\ UNCHANGED <<fs, published>>
            /\ Finish(p, CallEnd(c, FALSE, None, "FileNotFoundError", 1, fs, inodes))
    /\ UNCHANGED <<wp, inodes, srcFp, nCalls, okRuns>>
    /\ OptOnly

\* the source file is rewritten: its size and mtime change
TouchSource(source) ==
    /\ \E fp \in Fingerprints :
          /\ fp.mtime > srcFp[source].mtime
          /\ srcFp' = [srcFp EXCEPT ![source] = fp]
    /\ UNCHANGED <<wp, fs, inodes, call, nCalls, cur, okRuns, published>>
    /\ OptOnly

NoneActive == \A q \in Procs : call[q].pc = "idle"

\* a caller asks for the wallpaper's artifact
BeginAny(p) ==
    \E width \in Widths, height \in Heights, profile \in Profiles,
       mode \in Modes, encoder \in Encoders, probe \in ProbeOutcomes,
       ffmpegOnPath \in BOOLEAN :
        Begin(p, wp.source, width, height, profile, mode, wp.codec,
              encoder, probe, ffmpegOnPath)

FfmpegFailAny(p) ==
    \E why \in {"CalledProcessError", "KeyboardInterrupt"} : FfmpegFail(p, why)

\* one caller at a time
OptSeqNext ==
    \/ NoneActive /\ nCalls < MaxCalls /\ BeginAny(1)
    \/ FfmpegOpen(1)
    \/ FfmpegWrite(1)
    \/ FfmpegExitOk(1)
    \/ FfmpegFailAny(1)
    \/ Replace(1)
    \/ TouchSource(wp.source)

\* callers interleave
OptConcNext ==
    \/ \E p \in Procs : nCalls < MaxCalls /\ BeginAny(p)
    \/ \E p \in Procs : FfmpegOpen(p)
    \/ \E p \in Procs : FfmpegWrite(p)
    \/ \E p \in Procs : FfmpegExitOk(p)
    \/ \E p \in Procs : FfmpegFailAny(p)
    \/ \E p \in Procs : Replace(p)
    \/ TouchSource(wp.source)

OptFrozen ==
    /\ wp = [source |-> "clip.mp4", codec |-> "h264"]
    /\ fs = <<>> /\ inodes = <<>>
    /\ srcFp = [s \in Sources |-> [size |-> 1000, mtime |-> 10]]
    /\ call = [p \in Procs |-> Idle]
    /\ nCalls = 0 /\ cur = NoCall
    /\ okRuns = {} /\ published = {}

(***************************************************************************)
(*                     CACHE KEYS (optimize.cache_key)                     *)
(***************************************************************************)

ECO == [name |-> "eco", fps |-> 24, quality |-> 28, preset |-> "veryfast"]

ECO_STRICT == [name |-> "eco_strict", fps |-> 18, quality |-> 30, preset |-> "veryfast"]

QUALITY == [name |-> "quality", fps |-> 30, quality |-> 20, preset |-> "fast"]

\* the catalog of profiles
Catalog == {ECO, ECO_STRICT, BALANCED, QUALITY}

\* what a request to ensure_optimized is keyed on
KeyRequests ==
    [fp : {[path |-> "clip.mp4", size |-> 1000, mtime |-> 10],
           [path |-> "clip.mp4", size |-> 1000, mtime |-> 20],
           [path |-> "pic.png", size |-> 1000, mtime |-> 10]},
     w : {1280, 1920}, h : {720, 1080}, profile : Catalog,
     mode : {"auto", "cover"}, codec : Codecs, enc : {"cpu", "nvenc"}]

KeyOf(r) == KeyPayload(r.fp, r.w, r.h, r.profile, r.mode, r.codec, r.enc)

CkPending == [done |-> FALSE, keyA |-> NoKey, keyB |-> NoKey,
              pathA |-> NoPath, pathB |-> NoPath]

CkIdle == [fp |-> [path |-> "clip.mp4", size |-> 1000, mtime |-> 10],
           w |-> 1920, h |-> 1080, profile |-> BALANCED, mode |-> "auto",
           codec |-> "h264", enc |-> "cpu"]

CkInit ==
    /\ ck_a \in KeyRequests
    /\ ck_b \in KeyRequests
    /\ ck_out = CkPending

\* both requests are keyed, and request b's artifact is encoded and renamed
\* into place
KeyBoth ==
    /\ ~ck_out.done
    /\ LET keyA == KeyOf(ck_a)
           keyB == KeyOf(ck_b)
       IN /\ ck_out' = [done |-> TRUE, keyA |-> keyA, keyB |-> keyB,
                        pathA |-> optimized_path(keyA, ck_a.codec),
                        pathB |-> optimized_path(keyB, ck_b.codec)]
          /\ fs' = (optimized_path(keyB, ck_b.codec) :> 1)
          /\ inodes' = (1 :> FullOutput(1))
    /\ UNCHANGED <<ck_a, ck_b, wp, srcFp, call, nCalls, cur, okRuns, published>>
    /\ UNCHANGED <<polVars, peVars, rnVars, swVars, dmVars, ssVars, tgVars, apVars>>

CkFrozen ==
    /\ ck_a = CkIdle
    /\ ck_b = CkIdle
    /\ ck_out = CkPending

(***************************************************************************)
(*                          PROCESS SUPERVISOR                             *)
(***************************************************************************)

Monitors == {"DP-1", "HDMI-A-1"}

\* the order in which a state document lists its monitors
MonOrder == <<"DP-1", "HDMI-A-1">>

\* files a player can be showing
Files == {"a.mp4", "b.mp4"}

\* process ids of the process table
MaxPid == 2
Pids == 1..MaxPid

\* maximum number of steps taken by anything other than the controller
\* (a process exiting or appearing on its own, an edit of the state file)
MaxEnvSteps == 1

\* A process table entry.  A player's command line is
\* "mpvpaper -o <opts> <mon> <file>"; "other" is a process whose command line
\* does not contain "mpvpaper"; "lookalike" is a process that is not the
\* player but whose command line contains "mpvpaper" (an editor or a pager
\* opened on mpvpaper.log).  `mine` tells whether this user may signal it.
\* Every process leads its own process group (pgid = pid).
NoProc == [kind |-> "none", mon |-> "", file |-> "", mine |-> FALSE]

Player(mon, file, mine) == [kind |-> "player", mon |-> mon, file |-> file, mine |-> mine]

OtherProc == [kind |-> "other", mon |-> "", file |-> "", mine |-> TRUE]

Lookalike == [kind |-> "lookalike", mon |-> "", file |-> "", mine |-> TRUE]

\* the state document: absent, the legacy flat shape, or the version 2 shape
NoState == [version |-> 0]

LegacyDoc(pid, pgid, monitor, file, needle, mode, started_at) ==
    [version |-> 1, pid |-> pid, pgid |-> pgid, monitor |-> monitor,
     file |-> file, needle |-> needle, mode |-> mode, started_at |-> started_at]

MultiDoc(monitors) == [version |-> 2, monitors |-> monitors]

Entry(pid, pgid, file, mode, started_at, needle) ==
    [pid |-> pid, pgid |-> pgid, file |-> file, mode |-> mode,
     started_at |-> started_at, needle |-> needle]

\* needle = str(data.get("needle") or data.get("file", ""))
ReadNeedle(e) == IF e.needle = "" THEN e.file ELSE e.needle

\* _read_state: None, a RunState or a MultiRunState, the needle resolved
_read_state(doc) ==
    CASE doc.version = 2 ->
            [doc EXCEPT !.monitors =
                [m \in DOMAIN doc.monitors |->
                    [doc.monitors[m] EXCEPT !.needle = ReadNeedle(doc.monitors[m])]]]
      [] doc.version = 1 -> [doc EXCEPT !.needle = ReadNeedle(doc)]
      [] OTHER -> NoState

\* _write_state that writes a RunState back in the shape it was read in
_write_state_KeepShape(state) ==
    IF state.version = 2 THEN MultiDoc(state.monitors) ELSE state

\* _write_state: always the version 2 shape
_write_state(state) ==
    IF state.version = 2
    THEN MultiDoc(state.monitors)
    ELSE MultiDoc((state.monitor :>
                    Entry(state.pid, state.pgid, state.file, state.mode,
                          state.started_at, state.needle)))

_process_exists(t, pid) == t[pid].kind # "none"

\* _cmdline_contains(pid, "mpvpaper")
_cmdline_contains(t, pid) == t[pid].kind \in {"player", "lookalike"}

_is_mpvpaper(t, pid) == _process_exists(t, pid) /\ _cmdline_contains(t, pid)

_find_mpvpaper_pids(t, monitor, needle) ==
    {pid \in Pids :
        /\ _cmdline_contains(t, pid)
        /\ (monitor = "" \/ t[pid].mon = monitor)
        /\ (needle = "" \/ t[pid].file = needle)}

\* the table after the processes in `pids` have been sent SIGTERM and then
\* SIGKILL: the ones this user may signal are gone, the others are untouched
Signalled(t, pids) ==
    [pid \in Pids |-> IF pid \in pids /\ t[pid].mine THEN NoProc ELSE t[pid]]

\* _terminate_group(pgid): the members of the group are the process `pgid`
_terminate_group(t, pgid) == Signalled(t, {pgid})

\* steps 1-2 of stop for one recorded entry
KillRecorded(t, e) ==
    IF _process_exists(t, e.pid) /\ _is_mpvpaper(t, e.pid)
    THEN Signalled(_terminate_group(t, e.pgid), {e.pid})
    ELSE t

\* the verification sweep: monitor + needle, else monitor only
Sweep(t, monitor, needle) ==
    LET exact == _find_mpvpaper_pids(t, monitor, needle)
    IN IF exact # {} THEN exact ELSE _find_mpvpaper_pids(t, monitor, "")

\* What stop() did for one recorded entry e of monitor `monitor`, from
\* table t: `found`, a player process was found (at the recorded pid or by
\* the sweep) and signalled; `blind`, steps 1-2 sent their signals although
\* the process at the recorded pid was not a player.
StopLog(t, monitor, e) ==
    LET hit  == _process_exists(t, e.pid) /\ _is_mpvpaper(t, e.pid)
        pids == Sweep(KillRecorded(t, e), monitor, e.needle)
    IN [found |-> (hit /\ t[e.pid].kind = "player") \/ pids # {},
        blind |-> hit /\ t[e.pid].kind # "player"]

\* `seen`: what each verification sweep found, in order
NoLog == [found |-> FALSE, blind |-> FALSE, seen |-> <<>>]

\* stop() on a MultiRunState, from the i-th monitor of the document on:
\* [t |-> the process table afterwards, any |-> stopped_any, log]
RECURSIVE StopMulti(_, _, _, _, _)
StopMulti(t, monitors, i, any, log) ==
    IF i > Len(MonOrder) THEN [t |-> t, any |-> any, log |-> log]
    ELSE IF MonOrder[i] \notin DOMAIN monitors
         THEN StopMulti(t, monitors, i + 1, any, log)
    ELSE LET e    == monitors[MonOrder[i]]
             hit  == _process_exists(t, e.pid) /\ _is_mpvpaper(t, e.pid)
             t1   == KillRecorded(t, e)
             pids == Sweep(t1, MonOrder[i], e.needle)
             t2   == Signalled(t1, pids)
             l    == StopLog(t, MonOrder[i], e)
         IN StopMulti(t2, monitors, i + 1, any \/ hit \/ pids # {},
                      [found |-> log.found \/ l.found,
                       blind |-> log.blind \/ l.blind,
                       seen  |-> Append(log.seen, pids)])

\* stop() on a legacy RunState: [t, ret, remove |-> the state file is
\* removed, log]
StopLegacy(t, state) ==
    LET t1    == KillRecorded(t, state)
        pids  == Sweep(t1, state.monitor, state.needle)
        t2    == Signalled(t1, pids)
        still == Sweep(t2, state.monitor, state.needle)
        l0    == StopLog(t, state.monitor, state)
        l     == [found |-> l0.found, blind |-> l0.blind, seen |-> <<pids, still>>]
    IN IF pids # {} /\ still # {}
       THEN [t |-> t2, ret |-> FALSE, remove |-> FALSE, log |-> l]
       ELSE [t |-> t2, ret |-> TRUE, remove |-> TRUE, log |-> l]

\* what status() reports as "running" for one recorded entry
RunningFlag(t, monitor, e) ==
    \/ (_process_exists(t, e.pid) /\ _is_mpvpaper(t, e.pid))
    \/ Sweep(t, monitor, e.needle) # {}

\* status(): the monitors reported running
StatusRunning(t, state) ==
    CASE state.version = 2 ->
            {m \in DOMAIN state.monitors : RunningFlag(t, m, state.monitors[m])}
      [] state.version = 1 ->
            IF RunningFlag(t, state.monitor, state) THEN {state.monitor} ELSE {}
      [] OTHER -> {}

\* the monitors a state tracks, each with its resolved needle
Tracked(state) ==
    CASE state.version = 2 ->
            {[mon |-> m, needle |-> state.monitors[m].needle] : m \in DOMAIN state.monitors}
      [] state.version = 1 -> {[mon |-> state.monitor, needle |-> state.needle]}
      [] OTHER -> {}

NoOp == [op |-> "none", ret |-> FALSE, before |-> NoState, running |-> {}, mon |-> "",
         found |-> FALSE, blind |-> FALSE, spawned |-> {}]

RnOnly == UNCHANGED <<polVars, peVars, optVars, swVars, dmVars, ckVars, ssVars, tgVars, apVars>>

\* an older release left its player running on monitor m, as process 1, and
\* its state file in the flat shape
LegacyLeft(m, file, mode) ==
    /\ procs = [pid \in Pids |-> IF pid = 1 THEN Player(m, file, TRUE) ELSE NoProc]
    /\ stateFile = LegacyDoc(1, 1, m, file, file, mode, 0)

\* nothing is running and there is no state file, or an older release left
\* its player and its state file
RnInit ==
    /\ \/ procs = [pid \in Pids |-> NoProc] /\ stateFile = NoState
       \/ \E m \in Monitors, file \in Files, mode \in {"fit", "cover"} :
             LegacyLeft(m, file, mode)
    /\ envSteps = 0
    /\ rn_last = NoOp

\* effective_mode: "auto" becomes "cover" for an image and "fit" for a video
EffectiveMode(mode, file) == IF mode = "auto" THEN "fit" ELSE mode

\* the reading of time.time() recorded as started_at
StartedAt == 1

\* start(monitor, file, preserve_other_monitors)
Start(monitor, file, preserve, pid) ==
    /\ procs[pid] = NoProc
    /\ procs' = [procs EXCEPT ![pid] = Player(monitor, file, TRUE)]
    /\ LET new == Entry(pid, pid, file, EffectiveMode("auto", file), StartedAt, file)
           existing == _read_state(stateFile)
       IN stateFile' =
            IF preserve
            THEN IF existing.version = 2
                 THEN _write_state(MultiDoc((monitor :> new) @@ existing.monitors))
                 ELSE _write_state(MultiDoc((monitor :> new)))
            ELSE _write_state(LegacyDoc(pid, pid, monitor, file, file,
                                        EffectiveMode("auto", file), StartedAt))
    /\ rn_last' = [NoOp EXCEPT !.op = IF preserve THEN "start preserve" ELSE "start",
                               !.before = stateFile, !.mon = monitor,
                               !.spawned = {pid}]
    /\ UNCHANGED envSteps
    /\ RnOnly

\* start_many(entries): one entry per monitor of `mons`, all showing `file`;
\* pidOf gives the pid each new player gets
StartMany(mons, file, pidOf) ==
    /\ mons # {}
    /\ \A m \in mons : procs[pidOf[m]] = NoProc
    /\ \A m1, m2 \in mons : pidOf[m1] = pidOf[m2] => m1 = m2
    /\ procs' = [pid \in Pids |->
                    IF \E m \in mons : pidOf[m] = pid
                    THEN Player(CHOOSE m \in mons : pidOf[m] = pid, file, TRUE)
                    ELSE procs[pid]]
    /\ stateFile' = _write_state(MultiDoc(
            [m \in mons |-> Entry(pidOf[m], pidOf[m], file,
                                  EffectiveMode("auto", file), StartedAt, file)]))
    /\ rn_last' = [NoOp EXCEPT !.op = "start_many", !.before = stateFile,
                               !.spawned = {pidOf[m] : m \in mons}]
    /\ UNCHANGED envSteps
    /\ RnOnly

\* what stop() does from process table t with the state read:
\* [t |-> the table afterwards, ret, remove |-> the state file is removed]
StopResult(t, state) ==
    CASE state.version = 2 ->
            LET r == StopMulti(t, state.monitors, 1, FALSE, NoLog)
            IN [t |-> r.t, ret |-> r.any, remove |-> TRUE, log |-> r.log]
      [] state.version = 1 -> StopLegacy(t, state)
      [] OTHER -> [t |-> t, ret |-> FALSE, remove |-> FALSE, log |-> NoLog]

\* stop()
Stop ==
    /\ LET r == StopResult(procs, _read_state(stateFile)) IN
       /\ procs' = r.t
       /\ stateFile' = IF r.remove THEN NoState ELSE stateFile
       /\ rn_last' = [NoOp EXCEPT !.op = "stop", !.ret = r.ret, !.before = stateFile,
                                  !.found = r.log.found, !.blind = r.log.blind]
    /\ UNCHANGED envSteps
    /\ RnOnly

\* status()
Status ==
    /\ rn_last' = [NoOp EXCEPT !.op = "status",
                        !.running = StatusRunning(procs, _read_state(stateFile))]
    /\ UNCHANGED <<procs, stateFile, envSteps>>
    /\ RnOnly

EnvStep ==
    /\ envSteps < MaxEnvSteps
    /\ envSteps' = envSteps + 1
    /\ rn_last' = NoOp
    /\ RnOnly

\* a process exits on its own
ProcExit(pid) ==
    /\ procs[pid] # NoProc
    /\ procs' = [procs EXCEPT ![pid] = NoProc]
    /\ UNCHANGED stateFile
    /\ EnvStep

\* a process the controller did not start appears: a player started by hand
\* or by another user, or some other program
ForeignSpawn(pid, p) ==
    /\ procs[pid] = NoProc
    /\ procs' = [procs EXCEPT ![pid] = p]
    /\ UNCHANGED stateFile
    /\ EnvStep

ForeignProcs ==
    {Player(m, f, mine) : m \in Monitors, f \in Files, mine \in BOOLEAN} \cup {OtherProc}

\* the programs a recycled pid is seen running
RecycledProcs == {OtherProc, Lookalike}

\* a process exits and the system gives its pid to a new process
PidReuse(pid, p) ==
    /\ procs[pid] # NoProc
    /\ p # procs[pid]
    /\ procs' = [procs EXCEPT ![pid] = p]
    /\ UNCHANGED stateFile
    /\ EnvStep

\* the state file is edited by hand: the pid, the pgid or the needle of one
\* entry is changed
EditEntry(m, pid, pgid, needle) ==
    /\ stateFile.version = 2
    /\ m \in DOMAIN stateFile.monitors
    /\ LET e == stateFile.monitors[m] IN
       /\ \/ pgid = e.pgid /\ needle = e.needle
          \/ pid = e.pid /\ needle = e.needle
          \/ pid = e.pid /\ pgid = e.pgid
       /\ Entry(pid, pgid, e.file, e.mode, e.started_at, needle) # e
       /\ stateFile' = [stateFile EXCEPT !.monitors[m] =
                            Entry(pid, pgid, e.file, e.mode, e.started_at, needle)]
    /\ UNCHANGED procs
    /\ EnvStep

RnNext ==
    \/ \E m \in Monitors, f \in Files, preserve \in BOOLEAN, pid \in Pids :
          Start(m, f, preserve, pid)
    \/ \E mons \in SUBSET Monitors, f \in Files :
          \E pidOf \in [mons -> Pids] : StartMany(mons, f, pidOf)
    \/ Stop
    \/ Status
    \/ \E pid \in Pids : ProcExit(pid)
    \/ \E pid \in Pids, p \in ForeignProcs : ForeignSpawn(pid, p)
    \/ \E pid \in Pids, p \in RecycledProcs : PidReuse(pid, p)
    \/ \E m \in Monitors, pid \in Pids, pgid \in Pids, needle \in Files \cup {""} :
          EditEntry(m, pid, pgid, needle)

\* the position of a monitor in the list of entries
MonIndex(m) == CHOOSE i \in 1..Len(MonOrder) : MonOrder[i] = m

\* The entries start_many gets through: all of them, or, when looking up
\* the resolution of monitor `bad` raises (hyprctl fails, or the monitor
\* has gone), the ones before it.
Started(mons, bad) ==
    IF bad = "" THEN mons ELSE {m \in mons : MonIndex(m) < MonIndex(bad)}

\* The players are replaced, as `set`, `profile set` and a switch of the
\* auto daemon do it: runner.stop(), then runner.start_many(entries) with
\* one entry per monitor of `mons`.  start_many writes the state file after
\* its loop, so when an entry raises the players already started stay and
\* no state is written.
Apply(mons, file, pidOf, bad) ==
    /\ mons # {}
    /\ bad \in mons \cup {""}
    /\ DOMAIN pidOf = Started(mons, bad)
    /\ LET r == StopResult(procs, _read_state(stateFile)) IN
       /\ \A m \in DOMAIN pidOf : r.t[pidOf[m]] = NoProc
       /\ \A m1, m2 \in DOMAIN pidOf : pidOf[m1] = pidOf[m2] => m1 = m2
       /\ procs' = [pid \in Pids |->
                       IF \E m \in DOMAIN pidOf : pidOf[m] = pid
                       THEN Player(CHOOSE m \in DOMAIN pidOf : pidOf[m] = pid, file, TRUE)
                       ELSE r.t[pid]]
       /\ stateFile' =
             IF bad = ""
             THEN _write_state(MultiDoc(
                     [m \in mons |-> Entry(pidOf[m], pidOf[m], file,
                                           EffectiveMode("auto", file), StartedAt, file)]))
             ELSE IF r.remove THEN NoState ELSE stateFile
       /\ rn_last' = [NoOp EXCEPT !.op = IF bad = "" THEN "apply" ELSE "apply failed",
                                  !.ret = r.ret, !.before = stateFile,
                                  !.spawned = {pidOf[m] : m \in DOMAIN pidOf}]
    /\ UNCHANGED envSteps
    /\ RnOnly

\* the operations of the controller, one at a time, and nothing else
CtlNext ==
    \/ \E mons \in SUBSET Monitors, f \in Files, bad \in Monitors \cup {""} :
          \E pidOf \in [Started(mons, bad) -> Pids] : Apply(mons, f, pidOf, bad)
    \/ Stop
    \/ Status

RnFrozen ==
    /\ procs = [pid \in Pids |-> NoProc]
    /\ stateFile = NoState
    /\ envSteps = 0
    /\ rn_last = NoOp

(***************************************************************************)
(*                     SWITCH GATE (policy.should_switch)                  *)
(***************************************************************************)

ProfileNames == {"eco", "balanced", "quality", "eco_strict"}

\* largest clock reading and largest cooldown given to should_switch
MaxSwTime == 4
MaxSwCooldown == 3

\* should_switch with the cooldown still running at the very second it ends
should_switch_LateByOne(target, last, last_switch_at, cooldown_s, override_profile, now) ==
    /\ override_profile = None
    /\ target # last
    /\ ~(last_switch_at > 0 /\ (now - last_switch_at) <= cooldown_s)

\* should_switch; `now` is the reading of time.time() it takes
should_switch(target, last, last_switch_at, cooldown_s, override_profile, now) ==
    IF override_profile # None THEN FALSE
    ELSE IF target = last THEN FALSE
    ELSE IF last_switch_at > 0 /\ (now - last_switch_at) < cooldown_s THEN FALSE
    ELSE TRUE

SwPending == [done |-> FALSE, ret |-> FALSE]

SwInputs ==
    [target : ProfileNames, last : ProfileNames,
     last_switch_at : 0..MaxSwTime, cooldown_s : 0..MaxSwCooldown,
     override_profile : {None, "eco"}, now : 0..MaxSwTime]

SwOnly == UNCHANGED <<polVars, peVars, optVars, rnVars, dmVars, ckVars, ssVars, tgVars, apVars>>

SwInit ==
    /\ sw_in \in SwInputs
    /\ sw_out = SwPending

ShouldSwitch ==
    /\ sw_out = SwPending
    /\ sw_out' = [done |-> TRUE,
                   ret |-> should_switch(sw_in.target, sw_in.last, sw_in.last_switch_at,
                                         sw_in.cooldown_s, sw_in.override_profile,
                                         sw_in.now)]
    /\ UNCHANGED sw_in
    /\ SwOnly

SwIdle == [target |-> "eco", last |-> "eco", last_switch_at |-> 0,
           cooldown_s |-> 0, override_profile |-> None, now |-> 0]

SwFrozen ==
    /\ sw_in = SwIdle
    /\ sw_out = SwPending

(***************************************************************************)
(*                 SESSION AND AUTO DAEMON (cli/main.py)                   *)
(***************************************************************************)

\* Session defaults written by `set`
DefaultCooldown == 60

\* the daemon's sleeps, in seconds
Debounce == 10
PollBattery == 25
PollAc == 90

\* the clock advances in steps of TimeStep seconds, from Epoch up to MaxTime
TimeStep == 5
Epoch == 100
MaxTime == 140

\* maximum number of commands the user runs besides starting the daemon
MaxUserCmds == 2

\* the power statuses the daemon samples
SampledStatuses ==
    [on_ac : {"true", "false"}, percent : {strict_enter, eco_enter, eco_exit + 1}]

NoSession == [present |-> FALSE]

Session(auto_power, last_profile, last_switch_at, cooldown_s, override_profile) ==
    [present |-> TRUE, auto_power |-> auto_power, last_profile |-> last_profile,
     last_switch_at |-> last_switch_at, cooldown_s |-> cooldown_s,
     override_profile |-> override_profile]

DmOff == [pc |-> "off", sess |-> NoSession, last |-> None, wakeAt |-> 0, once |-> FALSE]

NoApplied == [profile |-> None, by |-> None]

\* bookkeeping for the properties: the operation that ended last, the times
\* of the running daemon's two latest automatic switches, the override the
\* user asked for last, whether the daemon switched or dropped the
\* override while the session on disk held one, and, for the latest
\* `auto --once`, how it went ("running", "ended", "refused",
\* "interrupted"), how many times it sampled and evaluated, and how many
\* optimize/stop/start/persist sequences it began
SnInit0 == [op |-> "none", cmds |-> 0, prevAuto |-> 0, lastAuto |-> 0, wanted |-> None,
            autoUnderOverride |-> FALSE, overrideDropped |-> FALSE,
            onceRun |-> "none", evals |-> 0, seqs |-> 0]

DmOnly == UNCHANGED <<polVars, peVars, optVars, rnVars, swVars, ckVars, ssVars, tgVars, apVars>>

\* the user runs one more command
UserCmd(name) == [sn EXCEPT !.op = name, !.cmds = @ + 1]

DmInit ==
    /\ clock = Epoch
    /\ sessFile = NoSession
    /\ dm = DmOff
    /\ applied = NoApplied
    /\ sn = SnInit0

\* `hyprwall set --profile p [--auto-power]`
SetCmd(profile, auto_power) ==
    /\ ~(auto_power /\ profile = "off")
    /\ applied' = [profile |-> profile, by |-> "set"]
    /\ sessFile' = Session(auto_power, profile, 0, DefaultCooldown, None)
    /\ sn.cmds < MaxUserCmds
    /\ sn' = UserCmd("set")
    /\ UNCHANGED <<clock, dm>>
    /\ DmOnly

\* `hyprwall stop`
StopCmd ==
    /\ applied' = NoApplied
    /\ sn.cmds < MaxUserCmds
    /\ sn' = UserCmd("stop")
    /\ UNCHANGED <<clock, sessFile, dm>>
    /\ DmOnly

\* `hyprwall status`
StatusCmd ==
    /\ sn.cmds < MaxUserCmds
    /\ sn' = UserCmd("status")
    /\ UNCHANGED <<clock, sessFile, dm, applied>>
    /\ DmOnly

\* `hyprwall auto [--once]`: the session is loaded once, before the loop
DaemonStart(once) ==
    /\ dm.pc = "off"
    /\ sessFile.present
    /\ sessFile.auto_power
    /\ dm' = [pc |-> "run", sess |-> sessFile, last |-> sessFile.last_profile,
              wakeAt |-> clock, once |-> once]
    /\ sn' = [sn EXCEPT !.op = "auto", !.prevAuto = 0, !.lastAuto = 0,
                         !.onceRun = IF once THEN "running" ELSE "none",
                         !.evals = 0, !.seqs = 0]
    /\ UNCHANGED <<clock, sessFile, applied>>
    /\ DmOnly

\* `hyprwall auto --once` with no session, or with a session whose
\* auto_power is off: the command exits with status 1 before the loop
AutoRefused ==
    /\ dm.pc = "off"
    /\ IF sessFile.present THEN ~sessFile.auto_power ELSE TRUE
    /\ sn.op # "auto refused"
    /\ sn' = [sn EXCEPT !.op = "auto refused", !.onceRun = "refused",
                         !.evals = 0, !.seqs = 0]
    /\ UNCHANGED <<clock, sessFile, dm, applied>>
    /\ DmOnly

\* the end of a loop iteration that never leaves the loop
LoopEnd_NoBreak(d, next) == next

\* the end of a loop iteration: with --once the loop is left, otherwise the
\* daemon sleeps
LoopEnd(d, next) == IF d.once THEN DmOff ELSE next

\* the bookkeeping of one iteration of an `auto --once`
OnceLog(log, began) ==
    IF dm.once
    THEN [log EXCEPT !.onceRun = "ended", !.evals = @ + 1,
                     !.seqs = IF began THEN @ + 1 ELSE @]
    ELSE log

PollSleep(st) == IF st.on_ac = "true" THEN PollAc ELSE PollBattery

\* one iteration of the daemon loop; `ok` tells whether the optimization and
\* the restart of the players went through
DaemonIter(st, ok) ==
    /\ dm.pc = "run"
    /\ clock >= dm.wakeAt
    /\ LET target == choose_profile(st, dm.last, Hysteresis)
           go == should_switch(target, dm.last, dm.sess.last_switch_at,
                               dm.sess.cooldown_s, dm.sess.override_profile, clock)
       IN IF go
          THEN IF ok
               THEN /\ applied' = [profile |-> target, by |-> "daemon"]
                    /\ sessFile' = [dm.sess EXCEPT !.auto_power = TRUE,
                                       !.last_profile = target,
                                       !.last_switch_at = clock]
                    /\ dm' = LoopEnd(dm, [dm EXCEPT !.last = target,
                                            !.wakeAt = clock + Debounce + PollSleep(st)])
                    /\ sn' = [OnceLog(sn, TRUE) EXCEPT !.op = "switch",
                                !.prevAuto = sn.lastAuto, !.lastAuto = clock,
                                !.autoUnderOverride =
                                    (@ \/ sessFile.override_profile # None),
                                !.overrideDropped =
                                    (@ \/ (/\ sessFile.override_profile # None
                                           /\ dm.sess.override_profile = None))]
               ELSE /\ dm' = DmOff
                    /\ sn' = [OnceLog(sn, TRUE) EXCEPT !.op = "crash"]
                    /\ UNCHANGED <<sessFile, applied>>
          ELSE /\ dm' = LoopEnd(dm, [dm EXCEPT !.wakeAt = clock + PollSleep(st)])
               /\ sn' = [OnceLog(sn, FALSE) EXCEPT !.op = "poll"]
               /\ UNCHANGED <<sessFile, applied>>
    /\ UNCHANGED clock
    /\ DmOnly

\* the daemon is interrupted
DaemonQuit ==
    /\ dm.pc = "run"
    /\ dm' = DmOff
    /\ sn' = [sn EXCEPT !.op = "quit",
                         !.onceRun = IF dm.once THEN "interrupted" ELSE @]
    /\ UNCHANGED <<clock, sessFile, applied>>
    /\ DmOnly

\* `hyprwall profile set p`
ProfileSet(p) ==
    /\ sessFile.present
    /\ applied' = [profile |-> p, by |-> "profile"]
    /\ sessFile' = [sessFile EXCEPT !.last_profile = p, !.last_switch_at = clock,
                                    !.override_profile = p]
    /\ sn.cmds < MaxUserCmds
    /\ sn' = [UserCmd("profile set") EXCEPT !.wanted = p]
    /\ UNCHANGED <<clock, dm>>
    /\ DmOnly

\* `hyprwall profile auto`
ProfileAuto ==
    /\ sessFile.present
    /\ sessFile' = [sessFile EXCEPT !.override_profile = None]
    /\ sn.cmds < MaxUserCmds
    /\ sn' = [UserCmd("profile auto") EXCEPT !.wanted = None]
    /\ UNCHANGED <<clock, dm, applied>>
    /\ DmOnly

\* time passes
Tick ==
    /\ clock + TimeStep <= MaxTime
    /\ clock' = clock + TimeStep
    /\ UNCHANGED <<sessFile, dm, applied, sn>>
    /\ DmOnly

DmNext ==
    \/ \E profile \in {"eco", "balanced", "quality", "off"}, auto_power \in BOOLEAN :
          SetCmd(profile, auto_power)
    \/ StopCmd
    \/ StatusCmd
    \/ \E once \in BOOLEAN : DaemonStart(once)
    \/ \E st \in SampledStatuses, ok \in BOOLEAN : DaemonIter(st, ok)
    \/ DaemonQuit
    \/ \E p \in ProfileNames : ProfileSet(p)
    \/ ProfileAuto
    \/ Tick

DmFrozen ==
    /\ clock = Epoch
    /\ sessFile = NoSession
    /\ dm = DmOff
    /\ applied = NoApplied
    /\ sn = SnInit0

\* the session contents `auto --once` can find, no session included
OnceSessions ==
    {NoSession} \cup
    {Session(a, lp, at, DefaultCooldown, ov) :
        a \in BOOLEAN, lp \in {"eco_strict", "eco", "balanced", "quality", "off"},
        at \in {0, Epoch - DefaultCooldown, Epoch - Debounce},
        ov \in {None, "eco", "quality"}}

\* the power statuses `auto --once` can sample
OncePowerStatuses ==
    [on_ac : OnAcValues,
     percent : {PctNone, strict_enter, strict_exit + 1, eco_enter, eco_exit + 1}]

OnceInit ==
    /\ clock = Epoch
    /\ sessFile \in OnceSessions
    /\ dm = DmOff
    /\ applied = NoApplied
    /\ sn = SnInit0

\* `hyprwall auto --once` is run, once
OnceNext ==
    \/ sn.onceRun = "none" /\ DaemonStart(TRUE)
    \/ sn.onceRun = "none" /\ AutoRefused
    \/ \E st \in OncePowerStatuses, ok \in BOOLEAN : DaemonIter(st, ok)

\* the loop body runs as soon as the command has started
OnceFair == WF_vars(\E st \in OncePowerStatuses, ok \in BOOLEAN : DaemonIter(st, ok))

(***************************************************************************)
(*                 SESSION DOCUMENT (core/session.py)                      *)
(***************************************************************************)

\* Numbers of the session are kept in tenths of a second, so that a float
\* can have a fraction and int() has something to cut off.
Tenths == 10

\* the Session values save_session is given
Sessions ==
    [source : {"clip.mp4", "pic.png"},
     ref_monitor : {"", "DP-1", "HDMI-A-1"},
     mode : {"auto", "cover"},
     codec : {"h264"},
     encoder : {"auto", "cpu"},
     auto_power : BOOLEAN,
     last_profile : {"eco", "balanced", "quality", "off"},
     last_switch_at : {0, 15, 17000},
     cooldown_s : {0, 60 * Tenths},
     override_profile : {None, "eco", "quality"}]

\* there is no session file
NoDocument == [absent |-> TRUE]

\* documents written by releases that knew only the "monitor" key
OldDocuments ==
    {[source |-> "clip.mp4", monitor |-> m, mode |-> "cover", last_profile |-> "eco"] :
        m \in {"DP-1", "HDMI-A-1"}}

\* data.get(key, default)
Get(data, key, default) == IF key \in DOMAIN data THEN data[key] ELSE default

\* a or b
Or(a, b) == IF a = None \/ a = "" THEN b ELSE a

\* str(x)
ToStr(x) == IF x = None THEN "None" ELSE x

\* float(x)
ToFloat(x) == x

\* int(x): the fraction is cut off
ToInt(x) == (x \div Tenths) * Tenths

\* bool(x)
ToBool(x) == x

\* load_session with the two numeric conversions exchanged
load_session_IntTime(data) ==
    IF "absent" \in DOMAIN data \/ "source" \notin DOMAIN data THEN None
    ELSE [source |-> ToStr(data.source),
          ref_monitor |-> ToStr(Or(Or(Get(data, "ref_monitor", None),
                                    Get(data, "monitor", None)), "")),
          mode |-> ToStr(Get(data, "mode", "auto")),
          codec |-> ToStr(Get(data, "codec", "h264")),
          encoder |-> ToStr(Get(data, "encoder", "auto")),
          auto_power |-> ToBool(Get(data, "auto_power", FALSE)),
          last_profile |-> ToStr(Get(data, "last_profile", "balanced")),
          last_switch_at |-> ToInt(Get(data, "last_switch_at", 0)),
          cooldown_s |-> ToFloat(Get(data, "cooldown_s", 60 * Tenths)),
          override_profile |-> Get(data, "override_profile", None)]

\* load_session: None when the file is missing or has no "source"
load_session(data) ==
    IF "absent" \in DOMAIN data \/ "source" \notin DOMAIN data THEN None
    ELSE [source |-> ToStr(data.source),
          ref_monitor |-> ToStr(Or(Or(Get(data, "ref_monitor", None),
                                    Get(data, "monitor", None)), "")),
          mode |-> ToStr(Get(data, "mode", "auto")),
          codec |-> ToStr(Get(data, "codec", "h264")),
          encoder |-> ToStr(Get(data, "encoder", "auto")),
          auto_power |-> ToBool(Get(data, "auto_power", FALSE)),
          last_profile |-> ToStr(Get(data, "last_profile", "balanced")),
          last_switch_at |-> ToFloat(Get(data, "last_switch_at", 0)),
          cooldown_s |-> ToInt(Get(data, "cooldown_s", 60 * Tenths)),
          override_profile |-> Get(data, "override_profile", None)]

\* save_session: the document written
save_session(sess) ==
    [source |-> sess.source,
     ref_monitor |-> sess.ref_monitor,
     monitor |-> sess.ref_monitor,
     mode |-> sess.mode,
     codec |-> sess.codec,
     encoder |-> sess.encoder,
     auto_power |-> sess.auto_power,
     last_profile |-> sess.last_profile,
     last_switch_at |-> sess.last_switch_at,
     cooldown_s |-> sess.cooldown_s,
     override_profile |-> sess.override_profile]

SsPending == [saved |-> FALSE, loaded |-> FALSE, sess |-> None]

SsOnly == UNCHANGED <<polVars, peVars, optVars, rnVars, swVars, dmVars, ckVars, tgVars, apVars>>

SsInit ==
    /\ ss_s \in Sessions
    /\ ss_file \in {NoDocument} \cup OldDocuments
    /\ ss_out = SsPending

\* save_session(ss_s)
SaveSession ==
    /\ ss_file' = save_session(ss_s)
    /\ ss_out' = [saved |-> TRUE, loaded |-> FALSE, sess |-> None]
    /\ UNCHANGED ss_s
    /\ SsOnly

\* load_session()
LoadSession ==
    /\ ss_out' = [ss_out EXCEPT !.loaded = TRUE, !.sess = load_session(ss_file)]
    /\ UNCHANGED <<ss_s, ss_file>>
    /\ SsOnly

SsNext == SaveSession \/ LoadSession

SsFrozen ==
    /\ ss_s = [source |-> "clip.mp4", ref_monitor |-> "", mode |-> "auto",
               codec |-> "h264", encoder |-> "auto", auto_power |-> FALSE,
               last_profile |-> "balanced", last_switch_at |-> 0,
               cooldown_s |-> 0, override_profile |-> None]
    /\ ss_file = NoDocument
    /\ ss_out = SsPending

(***************************************************************************)
(*                          TERMINATING A PROCESS GROUP                    *)
(***************************************************************************)
\* _terminate_group step by step, with the monotonic clock.  Time is counted
\* in polling intervals: poll_s (0.05 s) is one tick, timeout_s (2.0 s) is 40.
PollS == 1
TimeoutS == 40

\* a sleep of poll_s can take up to this many ticks longer
MaxLag == 1
\* the clock reading at the call is at most this
MaxTgStart == 1

\* "alive": the group has processes and may be signalled; "denied": it has
\* processes of another user; "gone": it has none
GroupStates == {"alive", "denied", "gone"}

\* os.killpg(pgid, 0): ProcessLookupError -> False, PermissionError -> True
_pgid_has_processes(group) == group # "gone"

\* os.killpg(pgid, sig) reaches the group only when it has processes that
\* the caller may signal; otherwise it raises and the error is swallowed
Delivered(group) == group = "alive"

\* `while time.monotonic() < deadline`
LoopGoesOn(now, deadline) == now < deadline

PollReturns_Never(has) == FALSE

\* `if not _pgid_has_processes(pgid): return`
PollReturns(has) == ~has

TgOnly == UNCHANGED <<polVars, peVars, optVars, rnVars, swVars, dmVars, ckVars, ssVars, apVars>>

TgStart(now, group) ==
    [pc |-> "term", now |-> now, deadline |-> 0, group |-> group, sigs |-> <<>>,
     seenEmpty |-> FALSE, polls |-> 0, lastPoll |-> 0, expiryAlive |-> FALSE]

TgInit == tg \in {TgStart(now, g) : now \in 0..MaxTgStart, g \in GroupStates}

\* os.killpg(pgid, SIGTERM); on ProcessLookupError or PermissionError return
KillpgTerm ==
    /\ tg.pc = "term"
    /\ tg' = [tg EXCEPT
                 !.sigs = <<[sig |-> "TERM", delivered |-> Delivered(tg.group)]>>,
                 !.deadline = IF Delivered(tg.group) THEN tg.now + TimeoutS ELSE 0,
                 !.pc = IF Delivered(tg.group) THEN "poll" ELSE "done"]
    /\ TgOnly

\* one round of the loop: the test, the look at the group, the sleep
PollGroup(lag) ==
    /\ tg.pc = "poll"
    /\ LoopGoesOn(tg.now, tg.deadline)
    /\ LET has == _pgid_has_processes(tg.group)
           wake == tg.now + PollS + lag
       IN tg' = IF PollReturns(has)
                THEN [tg EXCEPT !.polls = @ + 1, !.lastPoll = tg.now,
                                !.seenEmpty = TRUE, !.pc = "done"]
                ELSE [tg EXCEPT !.polls = @ + 1, !.lastPoll = tg.now,
                                !.seenEmpty = @ \/ ~has,
                                !.now = wake,
                                !.expiryAlive = wake >= tg.deadline /\ tg.group = "alive"]
    /\ TgOnly

\* the loop is over: os.killpg(pgid, SIGKILL), errors swallowed
KillpgKill ==
    /\ tg.pc = "poll"
    /\ ~LoopGoesOn(tg.now, tg.deadline)
    /\ tg' = [tg EXCEPT
                 !.sigs = Append(@, [sig |-> "KILL", delivered |-> Delivered(tg.group)]),
                 !.group = IF Delivered(tg.group) THEN "gone" ELSE @,
                 !.pc = "done"]
    /\ TgOnly

\* the processes of the group exit, on the signal or by themselves
GroupExit ==
    /\ tg.pc = "poll"
    /\ tg.group = "alive"
    /\ tg' = [tg EXCEPT !.group = "gone"]
    /\ TgOnly

TgNext ==
    \/ KillpgTerm
    \/ \E lag \in 0..MaxLag : PollGroup(lag)
    \/ KillpgKill
    \/ GroupExit

\* the call is a running thread: its next statement is eventually executed
TgFair ==
    /\ WF_vars(KillpgTerm)
    /\ WF_vars(\E lag \in 0..MaxLag : PollGroup(lag))
    /\ WF_vars(KillpgKill)

TgFrozen == tg = TgStart(0, "gone")

(***************************************************************************)
(*                          APPLYING A WALLPAPER                           *)
(***************************************************************************)
\* `hyprwall set`, `hyprwall profile set`, a switch of the auto daemon and
\* HyprwallCore.set_wallpaper, statement by statement, over the session file,
\* the state file and the process table.  One command runs at a time.

\* the parameters of policy.choose_profile, and the keywords with which
\* set_wallpaper calls it
ChooseProfileParams == {"st", "last", "h"}
SetWallpaperKeywords == {"power_status", "last_profile", "hysteresis"}

\* a Python call by keyword raises TypeError unless every keyword names a
\* parameter
CallByKeyword(keywords, params) == keywords \subseteq params

\* set_wallpaper's effective profile: [err, profile]
EffectiveProfile(auto_power, profile, st, prev) ==
    LET picked == IF auto_power THEN choose_profile(st, prev, Hysteresis) ELSE profile
    IN IF auto_power /\ ~CallByKeyword(SetWallpaperKeywords, ChooseProfileParams)
       THEN [err |-> "TypeError", profile |-> None]
       ELSE [err |-> None,
             profile |-> IF picked \in {"off", "eco", "balanced", "quality"}
                         THEN picked ELSE "balanced"]

\* a command that stops the players before it has optimized
NextStep_StopFirst(pc) ==
    CASE pc = "begin"    -> "stop"
      [] pc = "stop"     -> "optimize"
      [] pc = "optimize" -> "start"
      [] pc = "start"    -> "persist"
      [] OTHER           -> "done"

\* the order of the statements of a command
NextStep(pc) ==
    CASE pc = "begin"    -> "optimize"
      [] pc = "optimize" -> "stop"
      [] pc = "stop"     -> "start"
      [] pc = "start"    -> "persist"
      [] OTHER           -> "done"

\* with profile "off", and for an image in set_wallpaper, nothing is optimized
FirstStep(optimizes) == IF optimizes THEN NextStep("begin") ELSE "stop"

\* at most this many commands are run, besides starting the daemon
MaxApCmds == 3

\* what the command has changed or signalled so far
NothingTouched == [procs |-> FALSE, state |-> FALSE, sess |-> FALSE, signalled |-> FALSE]

ApIdle == [cmd |-> "none", pc |-> "idle", ops |-> <<>>, target |-> None, go |-> FALSE,
           auto |-> FALSE, video |-> TRUE, st |-> [on_ac |-> None, percent |-> PctNone],
           prev |-> None, sess |-> NoSession, file |-> "", err |-> None,
           savedAt |-> 0, touched |-> NothingTouched, n |-> 0]

\* a command begins
ApBegin(cmd, target) ==
    [ApIdle EXCEPT !.cmd = cmd, !.target = target, !.n = ap.n + 1]

ApResting == ap.pc \in {"idle", "done", "failed"} /\ ap.n < MaxApCmds

\* a switch that saves the profile the daemon had before
PersistedSession_OldLast(a, d, now) ==
    IF a.cmd = "switch"
    THEN [d.sess EXCEPT !.auto_power = TRUE, !.last_profile = d.last,
                        !.last_switch_at = now]
    ELSE Session(a.auto, a.target, 0, DefaultCooldown, None)

\* the Session the command saves at its end; d is the daemon, `now` the
\* reading of time.time()
PersistedSession(a, d, now) ==
    CASE a.cmd = "set" ->
            Session(a.auto, a.target, 0, DefaultCooldown, None)
      [] a.cmd = "api" ->
            Session(a.auto,
                    IF a.video /\ a.target # "off" THEN a.target ELSE a.prev,
                    0, DefaultCooldown, None)
      [] a.cmd = "profile set" ->
            [a.sess EXCEPT !.last_profile = a.target, !.last_switch_at = now,
                           !.override_profile = a.target]
      [] OTHER ->
            [d.sess EXCEPT !.auto_power = TRUE, !.last_profile = a.target,
                           !.last_switch_at = now]

ApRest == UNCHANGED <<polVars, peVars, optVars, swVars, ckVars, ssVars, tgVars,
                      envSteps, rn_last, applied, sn>>

\* `hyprwall set --profile p [--auto-power]`, up to the optimization
BeginSet(profile, auto_power) ==
    /\ ApResting
    /\ ~(auto_power /\ profile = "off")
    /\ ap' = [ApBegin("set", profile) EXCEPT !.auto = auto_power,
                                             !.pc = FirstStep(profile # "off")]
    /\ UNCHANGED <<clock, sessFile, dm, procs, stateFile>>
    /\ ApRest

\* `hyprwall profile set p`, up to the optimization
BeginProfileSet(p) ==
    /\ ApResting
    /\ sessFile.present
    /\ ap' = [ApBegin("profile set", p) EXCEPT !.sess = sessFile,
                                               !.pc = FirstStep(TRUE)]
    /\ UNCHANGED <<clock, sessFile, dm, procs, stateFile>>
    /\ ApRest

\* one iteration of the daemon loop, up to the optimization
BeginSwitch(st) ==
    /\ ApResting
    /\ dm.pc = "run"
    /\ LET target == choose_profile(st, dm.last, Hysteresis)
           go == should_switch(target, dm.last, dm.sess.last_switch_at,
                               dm.sess.cooldown_s, dm.sess.override_profile, clock)
       IN ap' = [ApBegin("switch", target) EXCEPT !.go = go,
                    !.pc = IF go THEN FirstStep(TRUE) ELSE "done"]
    /\ UNCHANGED <<clock, sessFile, dm, procs, stateFile>>
    /\ ApRest

\* HyprwallCore.set_wallpaper, up to the optimization
BeginApi(profile, auto_power, st, video) ==
    /\ ApResting
    /\ LET prev == IF sessFile.present THEN sessFile.last_profile ELSE "balanced"
           eff  == EffectiveProfile(auto_power, profile, st, prev)
       IN ap' = [ApBegin("api", eff.profile) EXCEPT
                    !.auto = auto_power, !.video = video, !.st = st, !.prev = prev,
                    !.err = eff.err,
                    !.pc = IF eff.err # None THEN "failed"
                           ELSE FirstStep(video /\ eff.profile # "off")]
    /\ UNCHANGED <<clock, sessFile, dm, procs, stateFile>>
    /\ ApRest

\* an exception ends the command; the daemon is a command, too
Raised(d, cmd) == IF cmd = "switch" THEN DmOff ELSE d

\* the artifact of a profile: each profile has its own cache key
ArtifactOf(profile) == IF profile \in {"eco", "eco_strict"} THEN "a.mp4" ELSE "b.mp4"

\* optimize.ensure_optimized: it returns the artifact, or raises in the
\* encoder selection or because the transcode failed; it takes `took`
\* seconds
ApOptimize(fail, took) ==
    /\ ap.pc = "optimize"
    /\ clock + took <= MaxTime
    /\ clock' = clock + took
    /\ ap' = IF fail = "none"
             THEN [ap EXCEPT !.ops = Append(@, "optimize"),
                             !.file = ArtifactOf(ap.target),
                             !.pc = NextStep("optimize")]
             ELSE [ap EXCEPT !.ops = Append(@, "optimize"), !.err = fail,
                             !.pc = "failed"]
    /\ dm' = IF fail = "none" THEN dm ELSE Raised(dm, ap.cmd)
    /\ UNCHANGED <<sessFile, procs, stateFile>>
    /\ ApRest

\* runner.stop()
ApStop ==
    /\ ap.pc = "stop"
    /\ LET r == StopResult(procs, _read_state(stateFile)) IN
       /\ procs' = r.t
       /\ stateFile' = IF r.remove THEN NoState ELSE stateFile
    /\ ap' = [ap EXCEPT !.ops = Append(@, "stop"), !.pc = NextStep("stop"),
                        !.touched = [@ EXCEPT
                            !.procs = @ \/ procs' # procs,
                            !.state = @ \/ stateFile' # stateFile,
                            !.signalled = @ \/ StopResult(procs, _read_state(stateFile)).log.found
                                            \/ StopResult(procs, _read_state(stateFile)).log.blind],
                        !.file = IF @ = "" THEN "src.mp4" ELSE @]
    /\ UNCHANGED <<clock, sessFile, dm>>
    /\ ApRest

\* runner.start_many with one entry per monitor; it raises at entry `bad`.
\* The new players take the lowest free pids.
ApStart(pidOf, bad) ==
    /\ ap.pc = "start"
    /\ DOMAIN pidOf = Started(Monitors, bad)
    /\ \A m \in DOMAIN pidOf : procs[pidOf[m]] = NoProc
    /\ \A m \in DOMAIN pidOf : \A q \in Pids :
          (q < pidOf[m] /\ procs[q] = NoProc) =>
             \E m2 \in DOMAIN pidOf : pidOf[m2] = q /\ MonIndex(m2) < MonIndex(m)
    /\ \A m1, m2 \in DOMAIN pidOf : pidOf[m1] = pidOf[m2] => m1 = m2
    /\ procs' = [pid \in Pids |->
                    IF \E m \in DOMAIN pidOf : pidOf[m] = pid
                    THEN Player(CHOOSE m \in DOMAIN pidOf : pidOf[m] = pid, ap.file, TRUE)
                    ELSE procs[pid]]
    /\ stateFile' =
          IF bad = ""
          THEN _write_state(MultiDoc(
                  [m \in Monitors |-> Entry(pidOf[m], pidOf[m], ap.file,
                                            EffectiveMode("auto", ap.file),
                                            StartedAt, ap.file)]))
          ELSE stateFile
    /\ ap' = [ap EXCEPT !.ops = Append(@, "start"),
                        !.err = IF bad = "" THEN @ ELSE "RuntimeError",
                        !.pc = IF bad = "" THEN NextStep("start") ELSE "failed",
                        !.touched = [@ EXCEPT !.procs = @ \/ procs' # procs,
                                              !.state = @ \/ stateFile' # stateFile]]
    /\ dm' = IF bad = "" THEN dm ELSE Raised(dm, ap.cmd)
    /\ UNCHANGED <<clock, sessFile>>
    /\ ApRest

\* save_session, and for the daemon `last = target` just before it
ApPersist ==
    /\ ap.pc = "persist"
    /\ sessFile' = PersistedSession(ap, dm, clock)
    /\ dm' = IF ap.cmd = "switch" THEN [dm EXCEPT !.last = ap.target] ELSE dm
    /\ ap' = [ap EXCEPT !.ops = Append(@, "persist"), !.savedAt = clock,
                        !.pc = NextStep("persist"),
                        !.touched = [@ EXCEPT !.sess = TRUE]]
    /\ UNCHANGED <<clock, procs, stateFile>>
    /\ ApRest

\* the power statuses set_wallpaper samples: on AC, and on battery at the
\* strict threshold
ApiStatuses ==
    {[on_ac |-> "true", percent |-> eco_exit + 1],
     [on_ac |-> "false", percent |-> strict_enter]}

ApNext ==
    \/ \E profile \in {"eco", "balanced", "off"}, auto_power \in BOOLEAN :
          BeginSet(profile, auto_power)
    \/ \E p \in {"eco", "eco_strict"} : BeginProfileSet(p)
    \/ DaemonStart(FALSE)
    \/ \E st \in SampledStatuses : BeginSwitch(st)
    \/ \E profile \in {"eco", "off"}, auto_power \in BOOLEAN, st \in ApiStatuses,
          video \in BOOLEAN : BeginApi(profile, auto_power, st, video)
    \/ \E fail \in {"none", "encoder", "transcode"}, took \in {0, TimeStep} :
          ApOptimize(fail, took)
    \/ ApStop
    \/ \E bad \in Monitors \cup {""} :
          \E pidOf \in [Started(Monitors, bad) -> Pids] : ApStart(pidOf, bad)
    \/ ApPersist

ApInit == ap = ApIdle

ApFrozen == ap = ApIdle

(***************************************************************************)
(*                          CLAIMS                                         *)
(***************************************************************************)

\* the players still alive that match a monitor tracked by the state document
\* the last operation started from
Remaining ==
    UNION {Sweep(procs, tr.mon, tr.needle) : tr \in Tracked(_read_state(rn_last.before))}

\* C4: when stop() has just returned success, status() reports nothing running
\* and no process matches the player pattern of a monitor that was tracked,
\* for a legacy state and for a multi-monitor state.
C4_StopSuccessLeavesNothing ==
    (rn_last.op = "stop" /\ rn_last.ret) =>
        /\ StatusRunning(procs, _read_state(stateFile)) = {}
        /\ Remaining = {}

\* C5: when a process matching a tracked monitor's player pattern remains after
\* stop()'s kill attempts, stop() has reported failure and the persisted state
\* is the one it started from, for a legacy state and for a multi-monitor state.
C5_RemainingMeansFailure ==
    (rn_last.op = "stop" /\ Remaining # {}) =>
        /\ ~rn_last.ret
        /\ stateFile = rn_last.before

\* C6: status() reports a monitor as running only if, at the time of the call,
\* a live player process for that monitor exists, whatever the persisted state.
C6_RunningMeansLivePlayer ==
    rn_last.op = "status" =>
        \A m \in rn_last.running : _find_mpvpaper_pids(procs, m, "") # {}


\* should_switch has returned for a call with no override and target # last
SwGated ==
    /\ sw_out.done
    /\ sw_in.override_profile = None
    /\ sw_in.target # sw_in.last

\* C11 as stated: with no override and target # last, should_switch returns
\* false whenever now - last_switch_at < cooldown_s and true whenever
\* now - last_switch_at >= cooldown_s, for every triple.
C11_CooldownGate ==
    SwGated => (sw_out.ret <=> (sw_in.now - sw_in.last_switch_at >= sw_in.cooldown_s))

\* C11 amended: that holds for every triple with last_switch_at > 0; with
\* last_switch_at <= 0 (no switch recorded) should_switch returns true
\* whatever the cooldown.
C11_CooldownGateAfterSwitch ==
    SwGated =>
        IF sw_in.last_switch_at > 0
        THEN sw_out.ret <=> (sw_in.now - sw_in.last_switch_at >= sw_in.cooldown_s)
        ELSE sw_out.ret

\* the cooldown has just elapsed and the switch is allowed
C11_Witness ==
    /\ SwGated
    /\ sw_in.last_switch_at > 0
    /\ sw_in.cooldown_s > 0
    /\ sw_in.now - sw_in.last_switch_at = sw_in.cooldown_s
    /\ sw_out.ret

\* C12: in a run of the auto daemon, two consecutive automatic switches are
\* at least the session's cooldown apart.
C12_SwitchesCooldownApart ==
    (sn.prevAuto > 0 /\ sessFile.present) =>
        sn.lastAuto - sn.prevAuto >= sessFile.cooldown_s

\* C13: while the persisted session holds a manual override, no daemon
\* restarts the players for a policy-chosen profile, and no daemon writes a
\* session without the override.
C13_OverrideStopsDaemon ==
    /\ ~sn.autoUnderOverride
    /\ ~sn.overrideDropped

\* C14: after a `profile set`, whatever operations follow, the session's
\* override_profile stays set until `profile auto` is run.
C14_OverrideStaysSet ==
    sn.wanted # None => (sessFile.present /\ sessFile.override_profile # None)

C16_AlwaysWritesMulti ==
    rn_last.op \in {"start", "start preserve", "start_many"} => stateFile.version = 2

\* a start found the legacy shape on disk and wrote
C16_Witness ==
    /\ rn_last.op = "start"
    /\ rn_last.before.version = 1
    /\ stateFile.version = 2

\* C17: after start(monitor, file, preserve_other_monitors=True) the state
\* holds an entry for that monitor, and every other monitor recorded in the
\* persisted state before the call still has its entry, unchanged.
C17_PreserveKeepsOthers ==
    rn_last.op = "start preserve" =>
        LET before == _read_state(_write_state(_read_state(rn_last.before)))
            after  == _read_state(stateFile)
        IN /\ after.version = 2
           /\ rn_last.mon \in DOMAIN after.monitors
           /\ rn_last.before.version # 0 =>
                 \A m \in DOMAIN before.monitors \ {rn_last.mon} :
                     /\ m \in DOMAIN after.monitors
                     /\ after.monitors[m] = before.monitors[m]

\* C18: for a video and for a still image, however the transcode fails,
\* the call raises an ordinary error and no temp file for the key is left
\* when it has ended.
C18_FailureRemovesTemp ==
    (NoneActive /\ cur.spawned = 1 /\ cur.err # None) =>
        /\ cur.err = "RuntimeError"
        /\ ~Exists(TmpPath(cur.path))

\* a call whose transcode failed has just ended
TranscodeFailed == NoneActive /\ cur.spawned = 1 /\ cur.err = "RuntimeError"

\* C19 as stated: after a call whose transcode failed the artifact path is
\* absent and the call made one transcode attempt; the next call with the
\* same arguments is a miss that runs the transcode again.
C19_FailureLeavesMiss ==
    /\ TranscodeFailed => ~Exists(cur.path)
    /\ cur.afterFail => (~cur.hit /\ cur.spawned = 1)

\* C19 amended: after a call whose transcode failed the artifact path is as
\* the call found it, missing or zero-byte, so it is not a hit; the next
\* call with the same arguments that resolves to the same encoder is a miss
\* that runs the transcode again.
C19_FailureLeavesMissSameEncoder ==
    /\ TranscodeFailed =>
          /\ cur.pre \in {"missing", "empty"}
          /\ PathState(cur.path) = cur.pre
          /\ ~IsCacheHit(cur.path)
    /\ (cur.afterFail /\ cur.chosen = cur.failed.chosen) =>
          /\ cur.path = cur.failed.path
          /\ ~cur.hit
          /\ cur.spawned = 1

\* a call retried after a failed transcode, and transcoded successfully
C19_Witness ==
    /\ cur.afterFail
    /\ cur.chosen = cur.failed.chosen
    /\ cur.err = None
    /\ cur.art = FullOutput(cur.id)

\* C20: two requests that differ in any field of source fingerprint, width,
\* height, profile, display mode, codec or resolved encoder get different
\* key payloads and different artifact paths, so a request does not hit
\* on the artifact of the other.
C20_DifferentRequestsDifferentKeys ==
    (ck_out.done /\ ck_a # ck_b) =>
        /\ ck_out.keyA # ck_out.keyB
        /\ ck_out.pathA # ck_out.pathB
        /\ IsCacheHit(ck_out.pathB)
        /\ ~IsCacheHit(ck_out.pathA)

\* two requests that differ in the display mode only have been keyed
C20_Witness ==
    /\ ck_out.done
    /\ ck_a.mode # ck_b.mode
    /\ [ck_a EXCEPT !.mode = ck_b.mode] = ck_b
    /\ ck_out.keyA # ck_out.keyB

PeDone == pe_out # PePending

IsArtifactPath(path) == path.stem = "wallpaper"

\* the file at `path` is exactly the output of one transcode for the path's
\* key that wrote all of its chunks and exited 0
CompleteAt(path) ==
    \E r \in okRuns :
        /\ r.key = path.dir
        /\ inodes[fs[path]] = FullOutput(r.id)

\* what the second of two successive calls must look like
SecondIsHit ==
    /\ ~cur.first.hit
    /\ cur.hit
    /\ cur.first.spawned + cur.spawned = 1
    /\ cur.path = cur.first.path
    /\ cur.artIno = cur.first.artIno
    /\ cur.art = cur.first.art
    /\ cur.art = ContentAt(cur.path)

\* C1 as stated: two successive ensure_optimized calls that return, with the
\* same argument tuple and an unchanged source, the first starting with no
\* artifact: the first is a miss, the second a hit with the same path, one
\* transcode is run in total and the second call does not rewrite the
\* artifact.
C1_IdenticalArgsOneTranscode ==
    cur.second => SecondIsHit

\* C1 amended: the same, for two calls in which the encoder request resolved
\* to the same encoder; the artifact file (inode and content) is then the one
\* the first call left.
C1_SecondCallHits ==
    (cur.second /\ cur.chosen = cur.first.chosen) => SecondIsHit

\* the second of two identical calls has returned
C1_Witness ==
    /\ cur.second
    /\ cur.chosen = cur.first.chosen
    /\ cur.hit
    /\ cur.req = "auto"
    /\ Len(cur.art) = NChunks

\* C2: with one caller at a time, a non-empty file at an artifact path is
\* always the complete output of a transcode for that key that exited 0
\* and whose temp file was renamed into place; and a call reports a hit
\* only when it found a non-empty file (a missing or zero-byte file is a
\* miss).
C2_NonEmptyMeansPublished ==
    /\ \A path \in DOMAIN fs :
          (IsArtifactPath(path) /\ Size(path) > 0) =>
              \E r \in okRuns :
                  /\ r.key = path.dir
                  /\ r.id \in published
                  /\ inodes[fs[path]] = FullOutput(r.id)
    /\ cur.hit => cur.pre = "nonempty"
    /\ (cur.err = None /\ cur.pre \in {"missing", "empty"}) => cur.spawned = 1

\* a call that found a zero-byte file transcoded and published over it
C2_Witness ==
    /\ cur.pre = "empty"
    /\ cur.err = None /\ ~cur.hit
    /\ cur.art = FullOutput(cur.id)
    /\ cur.id \in published

\* C3: when calls that miss on the same key interleave, the artifact path
\* never holds a non-empty file other than the complete output of one
\* finished transcode, so no caller can get a hit on a partial file.
C3_InterleavingKeepsArtifactsWhole ==
    \A path \in DOMAIN fs :
        (IsArtifactPath(path) /\ IsCacheHit(path)) => CompleteAt(path)

\* C7: for every codec and every explicitly requested encoder (cpu, vaapi,
\* nvenc), pick_encoder returns exactly the requested encoder when the codec
\* allows it, and otherwise fails with the incompatibility error; in both
\* cases it does not probe and never returns another encoder.
C7_ExplicitStrict ==
    (PeDone /\ pe_in.requested \in {"cpu", "vaapi", "nvenc"}) =>
        /\ ~pe_out.probed
        /\ IF pe_in.requested \in CODEC_ENCODERS[pe_in.codec]
           THEN pe_out.ret = pe_in.requested /\ pe_out.err = None
           ELSE pe_out.ret = None /\ pe_out.err = "Incompatible"

\* an explicit request the codec does not allow has been refused
C7_Witness ==
    /\ PeDone
    /\ pe_in.requested = "vaapi" /\ pe_in.codec = "h264"
    /\ pe_out.err = "Incompatible"

\* C8: for every codec, requested encoder and probing outcome, an encoder
\* that pick_encoder returns is in the compatibility table's list for the
\* codec; an "auto" request for av1 returns vaapi or fails, never cpu.
C8_ReturnedIsAllowed ==
    PeDone =>
        /\ (pe_out.err = None => pe_out.ret \in CODEC_ENCODERS[pe_in.codec])
        /\ (pe_in.requested = "auto" /\ pe_in.codec = "av1") =>
              /\ pe_out.ret # "cpu"
              /\ (pe_out.ret = "vaapi" /\ pe_out.err = None)
                 \/ (pe_out.ret = None /\ pe_out.err # None)

\* an "auto" request for av1 without the render device has failed
C8_Witness ==
    /\ PeDone
    /\ pe_in.requested = "auto" /\ pe_in.codec = "av1"
    /\ pe_in.probe.kind = "ok" /\ pe_in.probe.av1_txt /\ ~pe_in.probe.dri
    /\ pe_out.err = "Av1NeedsVaapi"

\* C9: an "auto" request for h264 or vp9 never fails, whatever the probing
\* outcome (every error raised while querying the encoder list included):
\* pick_encoder returns an encoder instead of propagating an error.
C9_AutoNeverFails ==
    (PeDone /\ pe_in.requested = "auto" /\ pe_in.codec \in {"h264", "vp9"}) =>
        /\ pe_out.err = None
        /\ pe_out.ret \in {"cpu", "nvenc"}

\* C10 as stated: on battery, over percents that stay in
\* (strict_enter, eco_exit], the result changes at most once, whatever the
\* `last` of the first call.
C10_AtMostOneChange ==
    pol_band => pol_changes <= 1

\* C10 (amended): on battery, over percents that stay in
\* (strict_enter, eco_exit], once "eco" has been returned it keeps being
\* returned, and when the first call's `last` is not "eco_strict" the result
\* changes at most once.
C10_NoFlap ==
    pol_band =>
        /\ (pol_ecoSeen => pol_last = "eco")
        /\ (pol_first # "eco_strict" => pol_changes <= 1)

\* "eco" is kept at a percent above eco_enter after a sequence in the band
C10_Witness ==
    /\ pol_band /\ pol_first = "balanced"
    /\ pol_n >= 3 /\ pol_changes = 1
    /\ pol_st.percent > eco_enter
    /\ pol_last = "eco"

\* the file at an artifact path is the same file with the same content
\* after the step
Untouched(path) ==
    /\ path \in DOMAIN fs'
    /\ fs'[path] = fs[path]
    /\ inodes'[fs[path]] = inodes[fs[path]]

\* caller p takes the step, in a call that is for another key than the
\* path's or that began when the path already held a non-empty file
LaterCallSteps(p, path) ==
    /\ call'[p] # call[p]
    /\ call[p].dst # path \/ call[p].pre = "nonempty"

\* C21: once a non-empty file is at an artifact path, no step of a call that
\* began afterwards, for the same key or another, modifies, replaces or
\* removes it; and no step of any call makes the set of non-empty artifacts
\* smaller.
C21_ArtifactsAppendOnly ==
    [][\A path \in DOMAIN fs :
          (IsArtifactPath(path) /\ Size(path) > 0) =>
              /\ \A p \in Procs : LaterCallSteps(p, path) => Untouched(path)
              /\ path \in DOMAIN fs' /\ Len(inodes'[fs'[path]]) > 0]_vars

\* a later call for another key has transcoded and published beside the
\* artifact of an earlier run, which is as it was
C21_Witness ==
    /\ cur.err = None /\ cur.spawned = 1 /\ cur.id \in published
    /\ cur.path # optimized_path(EarlierKey, "h264")
    /\ cur.path.dir.src.path = "clip.mp4"
    /\ ContentAt(optimized_path(EarlierKey, "h264")) = FullOutput(EarlierCall)
    /\ InodeAt(optimized_path(EarlierKey, "h264")) = EarlierCall

\* C22: choose_profile returns "balanced" for every battery percent, known
\* or unknown, and every last profile, whenever the status is on AC or the
\* AC state is unknown.
C22_BalancedOnAcOrUnknown ==
    (pol_n > 0 /\ pol_st.on_ac \in {"true", None}) => pol_last = "balanced"

\* the step is a choose_profile call on battery with a known percent and
\* the given `last`
OnBatteryCall(last) ==
    /\ pol_n' = pol_n + 1
    /\ pol_last = last
    /\ pol_st'.on_ac = "false"
    /\ pol_st'.percent # PctNone

\* C23 as stated: on battery with a known percent and last = "eco",
\* choose_profile returns "eco" for every percent at or below eco_exit and
\* "balanced" for every percent above it, and nothing else.
C23_EcoStaysUntilExit ==
    [][OnBatteryCall("eco") =>
          pol_last' = IF pol_st'.percent <= eco_exit THEN "eco" ELSE "balanced"]_vars

\* C23 amended: from last = "eco" it returns "eco_strict" for every percent
\* at or below strict_enter, "eco" for every percent above strict_enter and
\* at or below eco_exit, and "balanced" for every percent above eco_exit.
C23_EcoStaysUntilExitOrStrict ==
    [][OnBatteryCall("eco") =>
          pol_last' = IF pol_st'.percent <= strict_enter THEN "eco_strict"
                      ELSE IF pol_st'.percent <= eco_exit THEN "eco"
                      ELSE "balanced"]_vars

\* "eco" has been kept at exactly eco_exit
C23_Witness ==
    /\ pol_n = 1 /\ pol_first = "eco"
    /\ pol_st = [on_ac |-> "false", percent |-> eco_exit]
    /\ pol_last = "eco"

\* C24: on battery with a known percent, from last = "eco_strict" the result
\* is "eco_strict" at or below strict_exit, "eco" above strict_exit and
\* below eco_enter, "balanced" otherwise; from last = "balanced" or none it
\* is "eco_strict" at or below strict_enter, else "eco" at or below
\* eco_enter, else "balanced".
C24_StrictAndBalancedBands ==
    [][/\ OnBatteryCall("eco_strict") =>
             pol_last' = IF pol_st'.percent <= strict_exit THEN "eco_strict"
                         ELSE IF pol_st'.percent < eco_enter THEN "eco"
                         ELSE "balanced"
       /\ (OnBatteryCall("balanced") \/ OnBatteryCall(None)) =>
             pol_last' = IF pol_st'.percent <= strict_enter THEN "eco_strict"
                         ELSE IF pol_st'.percent <= eco_enter THEN "eco"
                         ELSE "balanced"]_vars

\* leaving "eco_strict" at exactly eco_enter has given "balanced"
C24_Witness ==
    /\ pol_n = 1 /\ pol_first = "eco_strict"
    /\ pol_st = [on_ac |-> "false", percent |-> eco_enter]
    /\ pol_last = "balanced"

\* C25: stop() returns True if and only if at least one player process was
\* found and signalled during the call, for the legacy and for the
\* multi-monitor state shape (False when a state file exists but none of
\* its recorded players is live).
C25_StopReturnsFoundAny ==
    rn_last.op = "stop" => (rn_last.ret <=> rn_last.found)

\* C30: steps 1-2 of stop() signal the recorded pid and process group only
\* when the process at the recorded pid is a live player; for an entry
\* whose pid is dead or belongs to a process that is not the player they
\* send nothing.
C30_SignalsOnlyConfirmedPlayer ==
    rn_last.op = "stop" => ~rn_last.blind

\* C26: in every result of ensure_optimized, requested is the caller's
\* encoder argument, chosen is the encoder hashed into the key, and used is
\* the encoder of the transcode that produced the file at the returned
\* path, on a miss and on a hit, for a video and for a still image.
C26_EncoderFieldsTruthful ==
    (NoneActive /\ cur.err = None) =>
        /\ cur.req \in Encoders
        /\ cur.chosen = cur.key.enc
        /\ \E r \in okRuns :
              /\ r.key = cur.key
              /\ cur.art = FullOutput(r.id)
              /\ cur.used = r.enc

\* C27: save_session(s) followed by load_session() returns a Session equal
\* to s in all ten fields; every document written has a "monitor" key equal
\* to its "ref_monitor"; a document that has only the old "monitor" key
\* loads with ref_monitor set to that value.
C27_SessionRoundTrip ==
    /\ (ss_out.saved /\ ss_out.loaded) =>
          /\ ss_out.sess = ss_s
          /\ DOMAIN ss_out.sess =
                {"source", "ref_monitor", "mode", "codec", "encoder", "auto_power",
                 "last_profile", "last_switch_at", "cooldown_s", "override_profile"}
    /\ ss_out.saved =>
          /\ "monitor" \in DOMAIN ss_file
          /\ ss_file.monitor = ss_file.ref_monitor
    /\ (~ss_out.saved /\ ss_out.loaded /\ ss_file \in OldDocuments) =>
          ss_out.sess.ref_monitor = ss_file.monitor

\* a session with a fractional switch time, an empty reference monitor and
\* an override has been saved and loaded
C27_Witness ==
    /\ ss_out.saved /\ ss_out.loaded
    /\ ss_s.last_switch_at = 15
    /\ ss_s.ref_monitor = ""
    /\ ss_s.override_profile = "eco"
    /\ ss_out.sess = ss_s

\* an `auto --once` has been run and is over
OnceOver == sn.onceRun \in {"ended", "refused"}

\* C28 as stated: with --once the auto command samples the power status
\* and evaluates the policy and the gate exactly once, performs at most one
\* optimize/stop/start/persist sequence and then terminates, for every
\* power status and every session content.
C28_OnceEvaluatesOnce ==
    /\ [](OnceOver => (sn.evals = 1 /\ sn.seqs <= 1 /\ dm.pc = "off"))
    /\ [](sn.onceRun = "running" => (sn.evals = 0 /\ sn.seqs = 0))
    /\ (sn.onceRun = "running" ~> OnceOver)

\* C28 amended: that holds for every power status and every session with
\* auto_power on; with no session, or with auto_power off, the command
\* ends at once without sampling, evaluating or touching anything.
C28_OnceEvaluatesOnceWhenAuto ==
    /\ [](sn.onceRun = "ended" => (sn.evals = 1 /\ sn.seqs <= 1 /\ dm.pc = "off"))
    /\ [](sn.onceRun = "refused" =>
            /\ IF sessFile.present THEN ~sessFile.auto_power ELSE TRUE
            /\ sn.evals = 0 /\ sn.seqs = 0 /\ dm.pc = "off"
            /\ applied = NoApplied)
    /\ [](sn.onceRun = "running" => (sn.evals = 0 /\ sn.seqs = 0))
    /\ (sn.onceRun = "running" ~> sn.onceRun = "ended")

\* an `auto --once` has switched the profile and ended
C28_Witness ==
    /\ sn.onceRun = "ended"
    /\ sn.evals = 1 /\ sn.seqs = 1
    /\ applied.by = "daemon"
    /\ dm.pc = "off"

\* the live players of monitor m
PlayersOf(m) == {pid \in Pids : procs[pid].kind = "player" /\ procs[pid].mon = m}

\* C29: in every state reached through controller operations run one at a
\* time, each monitor has at most one live player, so that no player is
\* started for a monitor while an earlier one for it is still live.
C29_OnePlayerPerMonitor ==
    \A m \in Monitors : Cardinality(PlayersOf(m)) <= 1

ProcValues ==
    {NoProc, OtherProc, Lookalike}
        \cup {Player(m, f, mine) : m \in Monitors, f \in Files, mine \in BOOLEAN}

\* C32: the result of stop() depends only on what its verification sweeps
\* observe: from the state file as it is, two process tables on which the
\* sweeps of stop() find the same processes give the same result.
C32_ResultFromSweepOnly ==
    LET state == _read_state(stateFile)
        a     == StopResult(procs, state)
    IN state.version = 2 =>
         \A t2 \in [Pids -> ProcValues] :
            LET b == StopResult(t2, state)
            IN a.log.seen = b.log.seen => a.ret = b.ret

\* C33: a call that returns a cache hit has spawned no external process,
\* neither the transcoder nor the listing of ffmpeg's encoders, whatever
\* encoder was requested.
C33_HitSpawnsNothing ==
    (cur.err = None /\ cur.hit) => (cur.spawned = 0 /\ ~cur.probed)

\* C36: when an operation that starts players has ended, by returning or
\* by raising, every player it spawned has an entry in the state file, under
\* its monitor and with its pid.
C36_SpawnedAreRecorded ==
    \A pid \in rn_last.spawned :
        LET state == _read_state(stateFile)
        IN /\ state.version = 2
           /\ procs[pid].mon \in DOMAIN state.monitors
           /\ state.monitors[procs[pid].mon].pid = pid

\* the statements of a command, in order
ApplyOrder == <<"optimize", "stop", "start", "persist">>

\* C34: an iteration of the daemon stops players, starts players and writes
\* the session only if should_switch returned true for its target, and then
\* as optimize, stop, start, persist in this order; after the persist the
\* session on disk holds the target as last_profile and the time of the
\* persist as last_switch_at, and the daemon's `last` equals that
\* last_profile.
C34_SwitchSequence ==
    ap.cmd = "switch" =>
        /\ (ap.ops # <<>> \/ ap.touched # NothingTouched) => ap.go
        /\ Len(ap.ops) <= Len(ApplyOrder)
        /\ \A i \in 1..Len(ap.ops) : ap.ops[i] = ApplyOrder[i]
        /\ (ap.pc = "done" /\ ap.go) =>
              /\ Len(ap.ops) = Len(ApplyOrder)
              /\ sessFile.last_profile = ap.target
              /\ sessFile.last_switch_at = ap.savedAt
              /\ ap.savedAt = clock
              /\ dm.last = sessFile.last_profile

\* the daemon has switched and persisted
C34_Witness ==
    /\ ap.cmd = "switch" /\ ap.pc = "done" /\ ap.go
    /\ ap.ops = ApplyOrder
    /\ ap.touched.procs /\ ap.touched.sess

\* C35: set_wallpaper with auto_power on a video does not raise at the
\* policy call, and the profile it optimizes with, and records as
\* last_profile when it completes, is the one choose_profile returns for the
\* sampled power status and the previous session's last_profile.
C35_ApiUsesPolicyProfile ==
    (ap.cmd = "api" /\ ap.auto /\ ap.video) =>
        /\ ap.err # "TypeError"
        /\ ap.target = choose_profile(ap.st, ap.prev, Hysteresis)
        /\ ap.pc = "done" => sessFile.last_profile = ap.target

\* C37: in `set`, `profile set` and a daemon switch no player is stopped
\* before the optimization has completed, and when the encoder selection
\* or the transcode fails the command has signalled no player and has
\* changed neither the process table, nor the state file, nor the session
\* file.
C37_OptimizeBeforeStop ==
    ap.cmd \in {"set", "profile set", "switch"} =>
        /\ \A i \in 1..Len(ap.ops) :
              (ap.ops[i] = "stop" /\ ~(ap.cmd = "set" /\ ap.target = "off")) =>
                  (i > 1 /\ ap.ops[1] = "optimize" /\ ap.err \notin {"encoder", "transcode"})
        /\ ap.err \in {"encoder", "transcode"} =>
              /\ ap.pc = "failed"
              /\ ap.touched = NothingTouched

\* the optimization failed while players were running
C37_Witness ==
    /\ ap.cmd \in {"set", "profile set", "switch"}
    /\ ap.pc = "failed" /\ ap.err \in {"encoder", "transcode"}
    /\ \E pid \in Pids : procs[pid].kind = "player"
    /\ stateFile # NoState
    /\ sessFile.present

\* C38: at a fixed power status, feeding the result of choose_profile back
\* as `last` gives the same result again, for every last profile in
\* {none, eco_strict, eco, balanced}.
C38_FixedPointInOneStep ==
    pol_n > 0 =>
        \A last \in {None, "eco_strict", "eco", "balanced"} :
            LET r == choose_profile(pol_st, last, Hysteresis)
            IN choose_profile(pol_st, r, Hysteresis) = r

\* eco_strict < eco < balanced
Rank(profile) ==
    CASE profile = "eco_strict" -> 0
      [] profile = "eco"        -> 1
      [] OTHER                  -> 2

\* threshold values for hystereses other than the default one
ThresholdValues == {strict_enter, strict_exit, eco_enter, eco_enter + 2, eco_exit}

\* hystereses with enter thresholds below exit thresholds and strict
\* thresholds below eco thresholds
Hystereses ==
    {h \in [eco_enter : ThresholdValues, eco_exit : ThresholdValues,
            strict_enter : ThresholdValues, strict_exit : ThresholdValues] :
        /\ h.eco_enter < h.eco_exit
        /\ h.strict_enter < h.strict_exit
        /\ h.strict_enter < h.eco_enter
        /\ h.strict_exit < h.eco_exit}

\* C39: on battery, with `last` fixed, a higher percent never gives a more
\* power-saving profile than a lower one, under every such hysteresis: the
\* percent of the first call and its `last` against every higher percent.
C39_MonotoneInPercent ==
    (pol_n = 1 /\ pol_st.on_ac = "false" /\ pol_st.percent # PctNone) =>
        /\ pol_last = choose_profile(pol_st, pol_first, Hysteresis)
        /\ \A h \in Hystereses, p2 \in Percents :
              p2 >= pol_st.percent =>
                 Rank(choose_profile(pol_st, pol_first, h))
                    <= Rank(choose_profile([pol_st EXCEPT !.percent = p2], pol_first, h))

\* a call on battery that left eco_strict for eco: below it eco_strict
\* stays, above it balanced is chosen
C39_Witness ==
    /\ pol_n = 1 /\ pol_st.on_ac = "false" /\ pol_st.percent # PctNone
    /\ pol_first = "eco_strict"
    /\ pol_last = "eco"

(***************************************************************************)
(*                          SPECIFICATIONS                                 *)
(***************************************************************************)

PolFrozen ==
    /\ pol_first = None /\ pol_last = None
    /\ pol_st = [on_ac |-> None, percent |-> PctNone]
    /\ pol_n = 0 /\ pol_changes = 0 /\ pol_band = TRUE /\ pol_ecoSeen = FALSE

InitPolicy == PolInit /\ PeFrozen /\ OptFrozen /\ RnFrozen /\ SwFrozen /\ DmFrozen /\ CkFrozen /\ SsFrozen /\ TgFrozen /\ ApFrozen

InitPick == PeInit /\ PolFrozen /\ OptFrozen /\ RnFrozen /\ SwFrozen /\ DmFrozen /\ CkFrozen /\ SsFrozen /\ TgFrozen /\ ApFrozen

InitOpt == OptInit /\ PolFrozen /\ PeFrozen /\ RnFrozen /\ SwFrozen /\ DmFrozen /\ CkFrozen /\ SsFrozen /\ TgFrozen /\ ApFrozen

InitRunner == RnInit /\ PolFrozen /\ PeFrozen /\ OptFrozen /\ SwFrozen /\ DmFrozen /\ CkFrozen /\ SsFrozen /\ TgFrozen /\ ApFrozen

InitSwitch == SwInit /\ PolFrozen /\ PeFrozen /\ OptFrozen /\ RnFrozen /\ DmFrozen /\ CkFrozen /\ SsFrozen /\ TgFrozen /\ ApFrozen

InitDaemon == DmInit /\ PolFrozen /\ PeFrozen /\ OptFrozen /\ RnFrozen /\ SwFrozen /\ CkFrozen /\ SsFrozen /\ TgFrozen /\ ApFrozen

InitKeys ==
    CkInit /\ PolFrozen /\ PeFrozen /\ OptFrozen /\ RnFrozen /\ SwFrozen /\ DmFrozen /\ SsFrozen /\ TgFrozen /\ ApFrozen

InitOnce ==
    OnceInit /\ PolFrozen /\ PeFrozen /\ OptFrozen /\ RnFrozen /\ SwFrozen /\ CkFrozen /\ SsFrozen /\ TgFrozen /\ ApFrozen

InitSession ==
    SsInit /\ PolFrozen /\ PeFrozen /\ OptFrozen /\ RnFrozen /\ SwFrozen /\ DmFrozen /\ CkFrozen /\ TgFrozen /\ ApFrozen

SpecPolicy == InitPolicy /\ [][PolStep]_vars

SpecPick == InitPick /\ [][PickEncoder]_vars

SpecOptSeq == InitOpt /\ [][OptSeqNext]_vars

SpecOptConc == InitOpt /\ [][OptConcNext]_vars

SpecRunner == InitRunner /\ [][RnNext]_vars

SpecSwitch == InitSwitch /\ [][ShouldSwitch]_vars

SpecDaemon == InitDaemon /\ [][DmNext]_vars

SpecKeys == InitKeys /\ [][KeyBoth]_vars

SpecSession == InitSession /\ [][SsNext]_vars

SpecController == InitRunner /\ [][CtlNext]_vars

InitTerminate ==
    TgInit /\ PolFrozen /\ PeFrozen /\ OptFrozen /\ RnFrozen /\ SwFrozen /\ DmFrozen /\ CkFrozen /\ SsFrozen /\ ApFrozen

SpecTerminate == InitTerminate /\ [][TgNext]_vars /\ TgFair

InitApply ==
    ApInit /\ DmInit /\ PolFrozen /\ PeFrozen /\ OptFrozen /\ RnFrozen /\ SwFrozen /\ CkFrozen /\ SsFrozen /\ TgFrozen

SpecApply == InitApply /\ [][ApNext]_vars

SpecOnce == InitOnce /\ [][OnceNext]_vars /\ OnceFair

====
